---------------------------- MODULE Spec2Model ----------------------------
(***************************************************************************)
(* Model of the recognition-engine lifecycle (MangaOCRWrapper and          *)
(* PaddleOCRWrapper, which share one lifecycle) and of the OCRManager      *)
(* facade.  Every thread of the program that touches an engine is a        *)
(* process of the model: the workers started by load_model_async, a        *)
(* caller of unload_model, a caller of perform_ocr and a caller of         *)
(* wait_for_load.  A step of the model is one read or write of the flags   *)
(* that other threads read without the lock.                               *)
(*                                                                         *)
(* The module also models the MacroManager (its UI-thread operations, the  *)
(* keyboard and mouse listener threads and the playback worker), the      *)
(* CaptureWindow overlay (pointer gestures, captures with their timers,    *)
(* the geometry string that is saved and restored) and preprocess_image.   *)
(***************************************************************************)
EXTENDS Integers, FiniteSets, Sequences, TLC

\* ---------------------------------------------------------------- bounds
MaxCalls   == 2   \* load_model_async calls issued in one behaviour
MaxEvents  == 2   \* events one macro log holds
MaxTime    == 1   \* clock ticks within one recording
MaxCaptures == 2  \* capture_region calls made in one behaviour
MaxCtors   == 2   \* threads that call the constructor of an engine

\* ------------------------------------------------------------- constants
Engines == {"manga_ocr", "paddle_ocr"}       \* OCREngine
NoError == "none"                            \* _load_error = None
Errors  == {"not_installed", "runtime"}      \* messages a failed load stores
Free    == "free"                            \* the lock is not held
Calls   == 1..MaxCalls

VARIABLES
    mocr,            \* [Engines -> BOOLEAN]: a model object is held (_mocr / _ocr)
    is_loaded,       \* [Engines -> BOOLEAN]
    is_loading,      \* [Engines -> BOOLEAN]
    load_error,      \* [Engines -> {NoError} \cup Errors]
    load_lock,       \* [Engines -> {Free, "load", "unload"}]: who holds _load_lock
    load_event,      \* [Engines -> BOOLEAN]: threading.Event is set
    current_engine,  \* OCRManager._current_engine
    loads,           \* [Calls -> record]: one per load_model_async call
    nCalls,          \* load_model_async calls issued so far
    unl,             \* the thread calling unload_model
    inf,             \* the thread calling perform_ocr
    wt,              \* the thread calling wait_for_load
    macro_state,     \* MacroManager._state
    events,          \* the list MacroManager._events refers to
    elapsed,         \* time.time() - MacroManager._start_time
    kill_requested,  \* MacroManager._kill_requested
    avail,           \* _keyboard_available, _mouse_available
    hooked,          \* the callbacks the input libraries hold
    th,              \* the threads that run MacroManager code
    pw,              \* the playback worker thread
    ret,             \* what the last start_recording() or play() returned
    rnote,           \* the on_recording_complete calls of this recording
    geom,            \* CaptureWindow.geometry(): x, y, width, height
    dragging,        \* CaptureWindow._dragging
    resizing,        \* CaptureWindow._resizing
    drag_start,      \* CaptureWindow._drag_start
    resize_edge,     \* CaptureWindow._resize_edge
    changed,         \* geometryChanged signals emitted since the last press
    visible,         \* CaptureWindow.isVisible()
    hotkey_enabled,  \* CaptureWindow._hotkey_enabled
    pending,         \* the QTimer.singleShot calls that have not fired yet
    grabs,           \* the ImageGrab.grab calls made so far
    captured,        \* the captureCompleted signals emitted so far
    skipped,         \* the capture_region calls that returned at "paused"
    restored,        \* the last restore_geometry_string call and its result
    opencv_available,\* image_ops.OPENCV_AVAILABLE
    pre,             \* the last preprocess_image call and its result
    instance,        \* [Engines -> Nat]: the objects cls._instance has referred to
    initialized,     \* [Engines -> BOOLEAN]: cls._initialized
    init_runs,       \* [Engines -> Nat]: executions of the body of __init__
    ctor,            \* the threads that call the constructor of an engine
    held,            \* the list object stop_recording() last returned
    pipe             \* the capture pipeline of the main window

macroVars == <<macro_state, events, elapsed, kill_requested, avail, hooked,
               th, pw, ret, rnote, held>>

vars == <<mocr, is_loaded, is_loading, load_error, load_lock, load_event,
          current_engine, loads, nCalls, unl, inf, wt,
          macro_state, events, elapsed, kill_requested, avail, hooked,
          th, pw, ret, rnote,
          geom, dragging, resizing, drag_start, resize_edge, changed,
          visible, hotkey_enabled, pending, grabs, captured, skipped,
          restored, opencv_available, pre,
          instance, initialized, init_runs, ctor, held, pipe>>

ctorVars == <<instance, initialized, init_runs, ctor>>

pipeVars == <<pipe>>

imageVars == <<opencv_available, pre>>

pointerVars == <<dragging, resizing, drag_start, resize_edge, changed>>

captureVars == <<visible, hotkey_enabled, pending, grabs, captured, skipped>>

overlayVars == <<geom, pointerVars, captureVars, restored>>

engineVars == <<mocr, is_loaded, is_loading, load_error, load_lock, load_event>>

ocrVars == <<engineVars, current_engine, loads, nCalls, unl, inf, wt>>

\* What the engine actions, the macro actions and the overlay actions leave
\* alone.
nonOcrVars == <<macroVars, overlayVars, imageVars, ctorVars,
               pipeVars>>
nonMacroVars == <<ocrVars, overlayVars, imageVars, ctorVars,
               pipeVars>>
nonOverlayVars == <<ocrVars, macroVars, imageVars, ctorVars,
               pipeVars>>
nonImageVars == <<ocrVars, macroVars, overlayVars, ctorVars,
               pipeVars>>
nonEngineVars == <<macroVars, overlayVars, imageVars>>

\* EngineState as the flags encode it: is_loaded is what perform_ocr and the
\* callbacks read as "success"; is_loading is what load_model_async reads.
EngineState(e) ==
    IF is_loaded[e] THEN "Loaded"
    ELSE IF is_loading[e] THEN "Loading"
    ELSE IF load_error[e] # NoError THEN "Failed"
    ELSE "Unloaded"

\* A load_model_async call: where its thread is (pc), whether a callback was
\* passed (cb), whether the caller took the immediate path (imm), the calls in
\* flight when it was made (during), what its run of the load body did (res)
\* and the arguments its callback was invoked with (ok, err).
NewLoad == [pc |-> "new", eng |-> "manga_ocr", cb |-> FALSE, imm |-> FALSE,
            res |-> NoError, ok |-> FALSE, err |-> NoError, during |-> {}]

IdleUnl == [pc |-> "idle", eng |-> "manga_ocr", from |-> "Unloaded"]

IdleInf == [pc |-> "idle", eng |-> "manga_ocr", via |-> "engine",
            sel |-> "manga_ocr", chk |-> "none", res |-> "none",
            called |-> FALSE]

IdleWt == [pc |-> "idle", eng |-> "manga_ocr", target |-> {}, timedOut |-> FALSE,
           ret |-> FALSE, retSt |-> "none"]

EngineInit ==
    /\ mocr = [e \in Engines |-> FALSE]
    /\ is_loaded = [e \in Engines |-> FALSE]
    /\ is_loading = [e \in Engines |-> FALSE]
    /\ load_error = [e \in Engines |-> NoError]
    /\ load_lock = [e \in Engines |-> Free]
    /\ load_event = [e \in Engines |-> FALSE]
    /\ current_engine = "manga_ocr"
    /\ loads = [c \in Calls |-> NewLoad]
    /\ nCalls = 0
    /\ unl = IdleUnl
    /\ inf = IdleInf
    /\ wt = IdleWt

\* ---------------------------------------------------- macro controller
Threads == {"ui", "kb", "ms"}   \* UI thread, keyboard and mouse listeners
KillKey == "f12"                \* MacroManager._kill_key

\* A thread: its place (pc), the input event its callback was called with
\* (name, type), the timestamp it computed (ts), what its stop_recording()
\* call found (sr), and for the record: whether its callback made the state
\* check after the keyboard listener had seen the kill key (late).
IdleThread == [pc |-> "idle", name |-> "", type |-> "", ts |-> 0,
               sr |-> "none", late |-> FALSE]

\* The playback worker: its place (pc), the list it iterates (the object
\* _events itself when alias, else its own list log), the iterator's index
\* (i), the event it fetched (cur), and for the record: the log as play() saw it (src), the events
\* handed to _execute_event (played), when the cancellation flag was first
\* set (killed, killN, killPc), the on_playback_complete calls (notes).
NoEvent == [type |-> "none", key |-> "", timestamp |-> 0]

NoWorker == [pc |-> "none", alias |-> FALSE, log |-> <<>>, i |-> 1,
             cur |-> NoEvent, src |-> <<>>, played |-> <<>>, killed |-> FALSE, killN |-> 0,
             killPc |-> "none", notes |-> 0]

NoRet == [op |-> "none", val |-> FALSE]

\* The list stop_recording() returned and passed to on_recording_complete:
\* whether one was returned (got), whether it is the object _events itself
\* (alias), and its contents when it is another object (log).
NoHeld == [got |-> FALSE, alias |-> FALSE, log |-> <<>>]

\* stop_recording(), lines 186, 207, 209: self._events is what is returned.
ReturnedEvents == [got |-> TRUE, alias |-> TRUE, log |-> <<>>]

\* What the holder of the returned list reads in it.
HeldLog == IF held.alias THEN events ELSE held.log

\* MainWindow._setup_hotkey: the capture hotkey is a mouse button
\* (is_mouse) or a key combination, and it is registered with the library
\* of its kind when that library can be imported.
SetupHotkey(is_mouse, k, m) ==
    IF is_mouse THEN (IF m THEN "mouse" ELSE "none")
    ELSE (IF k THEN "keyboard" ELSE "none")

\* MacroManager.__init__ on a host where the keyboard library can (k) and
\* the mouse library can (m) be imported, and MainWindow._setup_hotkey.
MacroStart(k, m, is_mouse) ==
    /\ macro_state = "idle"
    /\ events = <<>>
    /\ elapsed = 0
    /\ kill_requested = FALSE
    /\ avail = [keyboard |-> k, mouse |-> m]
    /\ hooked = [kb |-> FALSE, ms |-> FALSE, kill |-> FALSE,
                 hotkey |-> SetupHotkey(is_mouse, k, m)]
    /\ th = [t \in Threads |-> IdleThread]
    /\ pw = NoWorker
    /\ ret = NoRet
    /\ rnote = [n |-> 0, log |-> <<>>]
    /\ held = NoHeld

\* ------------------------------------------------------ capture overlay
BORDER_WIDTH == 2
RESIZE_MARGIN == 8
MIN_SIZE == 35

NoPoint == [set |-> FALSE, x |-> 0, y |-> 0]   \* _drag_start = None

\* No restore_geometry_string call has been made.
NoRestore == [str |-> <<>>, ret |-> "none"]

\* CaptureWindow.__init__ and _setup_window, and the show() of
\* MainWindow._show_overlay that follows the construction.
OverlayStart ==
    /\ geom = [x |-> 100, y |-> 100, w |-> 300, h |-> 50]
    /\ dragging = FALSE
    /\ resizing = FALSE
    /\ drag_start = NoPoint
    /\ resize_edge = "NONE"
    /\ changed = 0
    /\ visible = TRUE
    /\ hotkey_enabled = TRUE
    /\ pending = <<>>
    /\ grabs = <<>>
    /\ captured = <<>>
    /\ skipped = 0
    /\ restored = NoRestore

\* ------------------------------------------------------- preprocessing
\* No preprocess_image call has been made.
NoCall == [called |-> FALSE, mode |-> "none"]

\* The import of image_ops: cv2 is installed or it is not.
ImageStart(cv) ==
    /\ opencv_available = cv
    /\ pre = NoCall

\* ---------------------------------------------------- engine constructor
Ctors == 1..MaxCtors

IdleCtor == [pc |-> "idle", eng |-> "manga_ocr", late |-> FALSE]

\* The class attributes of the two wrappers: before the first constructor
\* call, or after the instances have been built by it.
CtorStart(built) ==
    /\ instance = [e \in Engines |-> IF built THEN 1 ELSE 0]
    /\ initialized = [e \in Engines |-> built]
    /\ init_runs = [e \in Engines |-> IF built THEN 1 ELSE 0]
    /\ ctor = [t \in Ctors |-> IdleCtor]

\* MainWindow.__init__: no capture is in progress; the settings
\* macro_enabled and macro_events (defaults at lines 94-95, or as saved).
IdlePipe(enabled, stored) ==
    [pc |-> "idle", n |-> 0, macro_enabled |-> enabled,
     macro_events |-> stored, text |-> "", shown |-> "none"]

Init ==
    /\ EngineInit
    /\ MacroStart(TRUE, TRUE, FALSE)
    /\ OverlayStart
    /\ ImageStart(TRUE)
    /\ CtorStart(TRUE)
    /\ pipe = IdlePipe(FALSE, <<>>)

MacroInit ==
    /\ EngineInit
    /\ \E k \in BOOLEAN, m \in BOOLEAN, is_mouse \in BOOLEAN :
           MacroStart(k, m, is_mouse)
    /\ OverlayStart
    /\ ImageStart(TRUE)
    /\ CtorStart(TRUE)
    /\ pipe = IdlePipe(FALSE, <<>>)

PreprocessInit ==
    /\ EngineInit
    /\ MacroStart(TRUE, TRUE, FALSE)
    /\ OverlayStart
    /\ \E cv \in BOOLEAN : ImageStart(cv)
    /\ CtorStart(TRUE)
    /\ pipe = IdlePipe(FALSE, <<>>)

ConstructInit ==
    /\ EngineInit
    /\ MacroStart(TRUE, TRUE, FALSE)
    /\ OverlayStart
    /\ ImageStart(TRUE)
    /\ CtorStart(FALSE)
    /\ pipe = IdlePipe(FALSE, <<>>)

\* The load workers of engine e that have been started and have not yet left
\* _load_model_sync.
InFlight(e) ==
    {c \in Calls : loads[c].eng = e /\ loads[c].pc \in {"start", "l102", "try", "finally"}}

\* The workers inside the load body (past the is_loaded check, lock held).
InBody(e) ==
    {c \in Calls : loads[c].eng = e /\ loads[c].pc \in {"l102", "try", "finally"}}
\* A lifecycle method that does not wait for _load_lock.
LockNeverTaken(e) == TRUE

\* "with self._load_lock": the lock can be taken.
LockFree(e) == load_lock[e] = Free

\* ---------------------------------------------------- load_model_async
\* The caller's part: the lock-free test of the flags, then either the
\* immediate callback path or the start of a worker thread.
AlreadyLoadedOrLoading(e) == is_loaded[e] \/ is_loading[e]

\* Where a thread goes when it reaches "if callback:".
AtCallback(cb) == IF cb THEN "cb" ELSE "done"

LoadAsync(e, cb) ==
    /\ nCalls < MaxCalls
    /\ LET c == nCalls + 1 IN
       /\ loads' = [loads EXCEPT ![c] =
              [@ EXCEPT !.pc = IF AlreadyLoadedOrLoading(e) THEN AtCallback(cb)
                                                            ELSE "start",
                        !.eng = e,
                        !.cb = cb,
                        !.imm = AlreadyLoadedOrLoading(e),
                        !.during = InFlight(e)]]
       /\ nCalls' = c
    /\ UNCHANGED <<engineVars, current_engine, unl, inf, wt>>
    /\ UNCHANGED nonOcrVars

\* _load_model_sync, lines 97-99: the lock is taken and the model is already
\* loaded: return.
LoadSkip(c) ==
    LET e == loads[c].eng IN
    /\ loads[c].pc = "start"
    /\ LockFree(e)
    /\ is_loaded[e]
    /\ loads' = [loads EXCEPT ![c].pc = AtCallback(loads[c].cb)]
    /\ UNCHANGED <<engineVars, current_engine, nCalls, unl, inf, wt>>
    /\ UNCHANGED nonOcrVars

\* lines 97-101: the lock is taken, the model is not loaded: is_loading = True.
LoadBegin(c) ==
    LET e == loads[c].eng IN
    /\ loads[c].pc = "start"
    /\ LockFree(e)
    /\ ~is_loaded[e]
    /\ load_lock' = [load_lock EXCEPT ![e] = "load"]
    /\ is_loading' = [is_loading EXCEPT ![e] = TRUE]
    /\ loads' = [loads EXCEPT ![c].pc = "l102"]
    /\ UNCHANGED <<mocr, is_loaded, load_error, load_event, current_engine,
                   nCalls, unl, inf, wt>>
    /\ UNCHANGED nonOcrVars

\* lines 102-103: the cached error and the event are reset.
LoadReset(c) ==
    LET e == loads[c].eng IN
    /\ loads[c].pc = "l102"
    /\ load_error' = [load_error EXCEPT ![e] = NoError]
    /\ load_event' = [load_event EXCEPT ![e] = FALSE]
    /\ loads' = [loads EXCEPT ![c].pc = "try"]
    /\ UNCHANGED <<mocr, is_loaded, is_loading, load_lock, current_engine,
                   nCalls, unl, inf, wt>>
    /\ UNCHANGED nonOcrVars
\* A load that builds the model and leaves is_loaded unset.
LoadSucceedNoFlag(c) ==
    LET e == loads[c].eng IN
    /\ loads[c].pc = "try"
    /\ mocr' = [mocr EXCEPT ![e] = TRUE]
    /\ loads' = [loads EXCEPT ![c].pc = "finally", ![c].res = "ok"]
    /\ UNCHANGED <<is_loaded, is_loading, load_error, load_lock, load_event,
                   current_engine, nCalls, unl, inf, wt>>
    /\ UNCHANGED nonOcrVars

\* lines 105-129: the model is constructed and is_loaded = True.
LoadSucceed(c) ==
    LET e == loads[c].eng IN
    /\ loads[c].pc = "try"
    /\ mocr' = [mocr EXCEPT ![e] = TRUE]
    /\ is_loaded' = [is_loaded EXCEPT ![e] = TRUE]
    /\ loads' = [loads EXCEPT ![c].pc = "finally", ![c].res = "ok"]
    /\ UNCHANGED <<is_loading, load_error, load_lock, load_event, current_engine,
                   nCalls, unl, inf, wt>>
    /\ UNCHANGED nonOcrVars

\* lines 131-164: the load raises; every handler stores a message.
LoadFail(c, m) ==
    LET e == loads[c].eng IN
    /\ loads[c].pc = "try"
    /\ load_error' = [load_error EXCEPT ![e] = m]
    /\ loads' = [loads EXCEPT ![c].pc = "finally", ![c].res = m]
    /\ UNCHANGED <<mocr, is_loaded, is_loading, load_lock, load_event,
                   current_engine, nCalls, unl, inf, wt>>
    /\ UNCHANGED nonOcrVars

\* lines 166-168 and the end of the with block.
LoadFinally(c) ==
    LET e == loads[c].eng IN
    /\ loads[c].pc = "finally"
    /\ is_loading' = [is_loading EXCEPT ![e] = FALSE]
    /\ load_event' = [load_event EXCEPT ![e] = TRUE]
    /\ load_lock' = [load_lock EXCEPT ![e] = Free]
    /\ loads' = [loads EXCEPT ![c].pc = AtCallback(loads[c].cb)]
    /\ UNCHANGED <<mocr, is_loaded, load_error, current_engine, nCalls, unl,
                   inf, wt>>
    /\ UNCHANGED nonOcrVars

\* callback(self._is_loaded, self._load_error): the first argument is read ...
CbReadLoaded(c) ==
    LET e == loads[c].eng IN
    /\ loads[c].pc = "cb"
    /\ loads' = [loads EXCEPT ![c].pc = "cb2", ![c].ok = is_loaded[e]]
    /\ UNCHANGED <<engineVars, current_engine, nCalls, unl, inf, wt>>
    /\ UNCHANGED nonOcrVars

\* ... then the second, and the callback is invoked.
CbInvoke(c) ==
    LET e == loads[c].eng IN
    /\ loads[c].pc = "cb2"
    /\ loads' = [loads EXCEPT ![c].pc = "done", ![c].err = load_error[e]]
    /\ UNCHANGED <<engineVars, current_engine, nCalls, unl, inf, wt>>
    /\ UNCHANGED nonOcrVars

\* -------------------------------------------------------- unload_model
\* lines 228-231: the lock is taken and the model reference is dropped.
UnloadBegin(e) ==
    /\ unl.pc = "idle"
    /\ LockFree(e)
    /\ load_lock' = [load_lock EXCEPT ![e] = "unload"]
    /\ mocr' = [mocr EXCEPT ![e] = FALSE]
    /\ unl' = [unl EXCEPT !.pc = "flags", !.eng = e, !.from = EngineState(e)]
    /\ UNCHANGED <<is_loaded, is_loading, load_error, load_event, current_engine,
                   loads, nCalls, inf, wt>>
    /\ UNCHANGED nonOcrVars
\* An unload that keeps the cached error.
UnloadKeepsError(e) ==
    /\ is_loaded' = [is_loaded EXCEPT ![e] = FALSE]
    /\ is_loading' = [is_loading EXCEPT ![e] = FALSE]
    /\ load_event' = [load_event EXCEPT ![e] = FALSE]
    /\ UNCHANGED load_error

\* lines 233-236: the flags, the cached error and the event are reset.
UnloadReset(e) ==
    /\ is_loaded' = [is_loaded EXCEPT ![e] = FALSE]
    /\ is_loading' = [is_loading EXCEPT ![e] = FALSE]
    /\ load_error' = [load_error EXCEPT ![e] = NoError]
    /\ load_event' = [load_event EXCEPT ![e] = FALSE]

\* lines 233-246 and the end of the with block: unload_model returns.
UnloadFlags ==
    LET e == unl.eng IN
    /\ unl.pc = "flags"
    /\ UnloadReset(e)
    /\ load_lock' = [load_lock EXCEPT ![e] = Free]
    /\ unl' = [unl EXCEPT !.pc = "idle"]
    /\ UNCHANGED <<mocr, current_engine, loads, nCalls, inf, wt>>
    /\ UNCHANGED nonOcrVars

\* ------------------------------------------------------- wait_for_load
\* line 180: the caller starts to wait on the event.
WaitStart(e) ==
    /\ wt.pc \in {"idle", "done"}
    /\ wt' = [wt EXCEPT !.pc = "waiting", !.eng = e, !.target = InFlight(e),
                        !.timedOut = FALSE, !.ret = FALSE, !.retSt = "none"]
    /\ UNCHANGED <<engineVars, current_engine, loads, nCalls, unl, inf>>
    /\ UNCHANGED nonOcrVars

\* Event.wait returns because the event is set.
WaitWake ==
    /\ wt.pc = "waiting"
    /\ load_event[wt.eng]
    /\ wt' = [wt EXCEPT !.pc = "woke"]
    /\ UNCHANGED <<engineVars, current_engine, loads, nCalls, unl, inf>>
    /\ UNCHANGED nonOcrVars

\* Event.wait returns because the timeout has elapsed.
WaitTimeout ==
    /\ wt.pc = "waiting"
    /\ ~load_event[wt.eng]
    /\ wt' = [wt EXCEPT !.pc = "woke", !.timedOut = TRUE]
    /\ UNCHANGED <<engineVars, current_engine, loads, nCalls, unl, inf>>
    /\ UNCHANGED nonOcrVars

\* line 181: return self._is_loaded.
WaitResult(e) == is_loaded[e]

WaitReturn ==
    /\ wt.pc = "woke"
    /\ wt' = [wt EXCEPT !.pc = "done", !.ret = WaitResult(wt.eng),
                        !.retSt = EngineState(wt.eng)]
    /\ UNCHANGED <<engineVars, current_engine, loads, nCalls, unl, inf>>
    /\ UNCHANGED nonOcrVars

\* --------------------------------------------------------- perform_ocr
\* The outcomes of a perform_ocr call.
InferErrors == {"not_loaded", "model_none", "type_error", "model_error"}
\* A test that rejects only an engine whose load has failed.
NotLoadedOnlyFailed(e) == ~is_loaded[e] /\ load_error[e] # NoError

\* lines 196-199: the lock-free test of is_loaded.
NotLoaded(e) == ~is_loaded[e]

\* perform_ocr called on the engine directly: the first test.
InferCheck(e) ==
    /\ inf.pc \in {"idle", "done"}
    /\ inf' = [inf EXCEPT !.pc = IF NotLoaded(e) THEN "done" ELSE "nonechk",
                          !.eng = e, !.via = "engine", !.sel = e,
                          !.chk = EngineState(e),
                          !.res = IF NotLoaded(e) THEN "not_loaded" ELSE "none",
                          !.called = FALSE]
    /\ UNCHANGED <<engineVars, current_engine, loads, nCalls, unl, wt>>
    /\ UNCHANGED nonOcrVars

\* The same test made by the engine after the manager has delegated.
InferCheckDelegated ==
    LET e == inf.eng IN
    /\ inf.pc = "chk"
    /\ inf' = [inf EXCEPT !.pc = IF NotLoaded(e) THEN "done" ELSE "nonechk",
                          !.chk = EngineState(e),
                          !.res = IF NotLoaded(e) THEN "not_loaded" ELSE "none"]
    /\ UNCHANGED <<engineVars, current_engine, loads, nCalls, unl, wt>>
    /\ UNCHANGED nonOcrVars

\* lines 201-202: the model reference is None.
InferNoneCheck ==
    LET e == inf.eng IN
    /\ inf.pc = "nonechk"
    /\ inf' = [inf EXCEPT !.pc = IF mocr[e] THEN "call" ELSE "done",
                          !.res = IF mocr[e] THEN "none" ELSE "model_none"]
    /\ UNCHANGED <<engineVars, current_engine, loads, nCalls, unl, wt>>
    /\ UNCHANGED nonOcrVars

\* lines 204-224: the model reference is read again and called.  A reference
\* that unload_model has dropped in between cannot be called: the call raises.
InferCall(r) ==
    LET e == inf.eng IN
    /\ inf.pc = "call"
    /\ inf' = [inf EXCEPT !.pc = "done",
                          !.res = IF mocr[e] THEN r ELSE "type_error",
                          !.called = mocr[e]]
    /\ UNCHANGED <<engineVars, current_engine, loads, nCalls, unl, wt>>
    /\ UNCHANGED nonOcrVars
\* A manager that falls back to whichever variant is loaded.
ManagerEngineFallback(cur) ==
    IF is_loaded[cur] THEN cur
    ELSE IF \E o \in Engines : is_loaded[o] THEN CHOOSE o \in Engines : is_loaded[o]
    ELSE cur

\* ---------------------------------------------------------- OCRManager
\* _get_engine_instance: the singleton of the selected variant.
ManagerEngine(cur) == cur
\* A set_engine that releases the variant it switches away from.
SetEngineUnloadsOld(v) ==
    /\ v # current_engine
    /\ current_engine' = v
    /\ mocr' = [mocr EXCEPT ![current_engine] = FALSE]
    /\ is_loaded' = [is_loaded EXCEPT ![current_engine] = FALSE]
    /\ UNCHANGED <<is_loading, load_error, load_lock, load_event, loads, nCalls,
                   unl, inf, wt>>
    /\ UNCHANGED nonOcrVars

\* set_engine: only the selection is recorded.
SetEngine(v) ==
    /\ v # current_engine
    /\ current_engine' = v
    /\ UNCHANGED <<engineVars, loads, nCalls, unl, inf, wt>>
    /\ UNCHANGED nonOcrVars

\* OCRManager.load_model_async delegates to the selected engine.
ManagerLoad(cb) == LoadAsync(ManagerEngine(current_engine), cb)

\* OCRManager.unload_current: only a loaded engine is unloaded.
ManagerUnloadCurrent ==
    LET e == ManagerEngine(current_engine) IN
    /\ is_loaded[e]
    /\ UnloadBegin(e)

\* OCRManager.perform_ocr, lines 144-149: the selected engine and its flag.
ManagerPerformOcr ==
    LET e == ManagerEngine(current_engine) IN
    /\ inf.pc \in {"idle", "done"}
    /\ inf' = [inf EXCEPT !.pc = IF is_loaded[e] THEN "chk" ELSE "done",
                          !.eng = e, !.via = "manager", !.sel = current_engine,
                          !.chk = EngineState(current_engine),
                          !.res = IF is_loaded[e] THEN "none" ELSE "not_loaded",
                          !.called = FALSE]
    /\ UNCHANGED <<engineVars, current_engine, loads, nCalls, unl, wt>>
    /\ UNCHANGED nonOcrVars

\* line 151: what perform_ocr of the engine returned or raised is what the
\* caller of the manager gets.
ManagerReturn(r) == r

\* What the caller of the finished inference call received.
InferOutcome == IF inf.via = "manager" THEN ManagerReturn(inf.res) ELSE inf.res

\* ------------------------------------------------------ specifications
\* The engine instance the threads of Spec call directly.
Direct == {"manga_ocr"}

\* The worker thread inside _load_model_sync.
LoadWorker ==
    \/ \E c \in Calls : LoadSkip(c)
    \/ \E c \in Calls : LoadBegin(c)
    \/ \E c \in Calls : LoadReset(c)
    \/ \E c \in Calls : LoadSucceed(c)
    \/ \E c \in Calls, m \in Errors : LoadFail(c, m)
    \/ \E c \in Calls : LoadFinally(c)

\* The completion callback, on the worker or on the immediate path.
Callback ==
    \/ \E c \in Calls : CbReadLoaded(c)
    \/ \E c \in Calls : CbInvoke(c)

\* One engine instance: the threads that load and unload it.
Next ==
    \/ \E e \in Direct : LoadAsync(e, TRUE)
    \/ LoadWorker
    \/ Callback
    \/ \E e \in Direct : UnloadBegin(e)
    \/ UnloadFlags

Spec == Init /\ [][Next]_vars

\* The same instance when no thread ever unloads it.
LoadOnlyNext ==
    \/ \E e \in Direct : LoadAsync(e, TRUE)
    \/ LoadWorker
    \/ Callback

LoadOnlySpec == Init /\ [][LoadOnlyNext]_vars

\* The same instance with a thread that waits for the load.
WaitNext ==
    \/ \E e \in Direct : LoadAsync(e, TRUE)
    \/ LoadWorker
    \/ Callback
    \/ \E e \in Direct : UnloadBegin(e)
    \/ UnloadFlags
    \/ \E e \in Direct : WaitStart(e)
    \/ WaitWake
    \/ WaitTimeout
    \/ WaitReturn

WaitSpec == Init /\ [][WaitNext]_vars

\* The same instance with a thread that runs inference on it.
InferNext ==
    \/ \E e \in Direct : LoadAsync(e, TRUE)
    \/ LoadWorker
    \/ Callback
    \/ \E e \in Direct : UnloadBegin(e)
    \/ UnloadFlags
    \/ \E e \in Direct : InferCheck(e)
    \/ InferNoneCheck
    \/ \E r \in {"text", "model_error"} : InferCall(r)

InferSpec == Init /\ [][InferNext]_vars

\* Both variants behind the manager; the loads pass no callback.
ManagerNext ==
    \/ \E v \in Engines : SetEngine(v)
    \/ ManagerLoad(FALSE)
    \/ LoadWorker
    \/ ManagerUnloadCurrent
    \/ UnloadFlags
    \/ ManagerPerformOcr
    \/ InferCheckDelegated
    \/ InferNoneCheck
    \/ \E r \in {"text", "model_error"} : InferCall(r)

ManagerSpec == Init /\ [][ManagerNext]_vars
\* ------------------------------------------------------------- helpers
\* Call c has executed (or is executing) the load body.
Ran(c) == loads[c].pc \in {"l102", "try"} \/ loads[c].res # NoError

\* Call c's thread has left _load_model_sync.
LoadOver(c) == loads[c].pc \in {"cb", "cb2", "done"}

\* The (success, error) pair call c's callback was invoked with.
Outcome(c) == <<loads[c].ok, loads[c].err>>

\* The (success, error) pair that reports what call c's load body did.
LoadOutcome(c) ==
    IF loads[c].res = "ok" THEN <<TRUE, NoError>> ELSE <<FALSE, loads[c].res>>

BodyRuns(e) == Cardinality({c \in Calls : loads[c].eng = e /\ Ran(c)})

\* -------------------------------------------------------------- claims
\* C1: two load_async calls in quick succession on an Unloaded engine (the
\* second while the first load is in flight): the load body runs exactly once
\* and both callbacks are invoked with the same (success, error) outcome.
C1_TwoCallsOneLoad ==
    (/\ loads[1].pc = "done" /\ loads[2].pc = "done"
     /\ loads[1].eng = loads[2].eng
     /\ 1 \in loads[2].during)
    => (/\ BodyRuns(loads[1].eng) = 1
        /\ Outcome(1) = Outcome(2))

\* C2: a load_async call made while another load of the same engine is in
\* flight does not run the load body again, and its callback is invoked only
\* once that load has finished, with that load's outcome.
C2_LateCallWaitsForLoad ==
    \A c, d \in Calls :
        (c # d /\ c \in loads[d].during /\ Ran(c))
        => (/\ ~Ran(d)
            /\ (loads[d].pc = "done" => LoadOver(c) /\ Outcome(d) = LoadOutcome(c)))

\* C3: per engine, at most one thread is inside the load body, and unload
\* never runs while a thread is inside the load body.
C3_LoadExclusion ==
    \A e \in Engines :
        Cardinality(InBody(e)) + (IF unl.pc = "flags" /\ unl.eng = e THEN 1 ELSE 0) <= 1

\* A worker waits at the lock while unload_model holds it, after an earlier
\* worker has run the load body.
C3_Witness ==
    /\ unl.pc = "flags"
    /\ \E c \in Calls : loads[c].eng = unl.eng /\ loads[c].pc = "start"
    /\ \E d \in Calls : loads[d].eng = unl.eng /\ loads[d].res # NoError

\* The EngineState transitions of the specification's data model.
MonotonicSteps ==
    {<<"Unloaded", "Loading">>, <<"Loading", "Loaded">>, <<"Loading", "Failed">>,
     <<"Loaded", "Unloaded">>, <<"Failed", "Unloaded">>}

\* The step is the return of unload_model on engine e.
UnloadReturns(e) == unl.pc = "flags" /\ unl.eng = e /\ unl'.pc = "idle"

Transition(e, allowed) ==
    LET s == EngineState(e)
        t == EngineState(e)'
    IN  /\ s # t => <<s, t>> \in allowed
        /\ (s # t /\ t = "Unloaded") => UnloadReturns(e)

\* C4 as stated: EngineState only moves Unloaded -> Loading -> (Loaded or
\* Failed), and Loaded or Failed is left only for Unloaded, through unload().
C4_MonotonicOriginal ==
    [][\A e \in Engines : Transition(e, MonotonicSteps)]_vars

\* C4 amended: as above, and Failed is also left for Loading when a new
\* load_async retries the load.
C4_MonotonicWithRetry ==
    [][\A e \in Engines :
          Transition(e, MonotonicSteps \cup {<<"Failed", "Loading">>})]_vars

\* A worker has re-entered the load body of an engine that was Failed: the
\* engine is Loading and the message of the failed load is still cached.
C4_Witness ==
    \E c \in Calls : loads[c].pc = "l102" /\ load_error[loads[c].eng] # NoError

\* C7: when unload() returns the engine is Unloaded: no model held, is_loaded
\* and is_loading false, no cached error, from whichever state it was called.
C7_UnloadPost ==
    [][\A e \in Engines :
          UnloadReturns(e) =>
              /\ ~mocr'[e] /\ ~is_loaded'[e] /\ ~is_loading'[e]
              /\ load_error'[e] = NoError
              /\ EngineState(e)' = "Unloaded"]_vars

\* unload_model has returned after being called on a Failed engine.
C7_Witness == unl.pc = "idle" /\ unl.from = "Failed"

\* C8: a failed load stores its message on the engine, and the callback of
\* that load is invoked with success = false and that same message.
C8_FailureDelivered ==
    \A c \in Calls :
        /\ (loads[c].pc = "finally" /\ loads[c].res \in Errors)
              => load_error[loads[c].eng] = loads[c].res
        /\ (loads[c].pc = "done" /\ loads[c].res \in Errors)
              => Outcome(c) = <<FALSE, loads[c].res>>

\* C6: wait_until_loaded issued after load_async has started a load (here: one
\* worker in flight, every other load_async call over) does not return
\* before that load has completed unless the timeout elapsed, and its return
\* value is whether the engine is Loaded at return.  The first part is stated
\* for the returns that report "not loaded" only: a return of true while the
\* worker is still queued behind a load that has succeeded is not counted.
C6_WaitCoversLoad ==
    /\ \A c \in Calls :
          (/\ wt.pc = "done" /\ ~wt.timedOut /\ ~wt.ret
           /\ wt.target = {c} /\ loads[c].during = {}
           /\ \A d \in Calls \ {c} : loads[d].pc \in {"new", "done"})
          => LoadOver(c)
    /\ wt.pc = "done" => (wt.ret <=> wt.retSt = "Loaded")

C9_SelectFrame ==
    [][current_engine' # current_engine
          => UNCHANGED <<engineVars, loads, nCalls, unl, inf, wt>>]_vars

\* Both variants are Loaded and the first one is selected again: it was
\* loaded, the other variant was selected and loaded, and the selection
\* came back.
C9_Witness ==
    /\ current_engine = "manga_ocr"
    /\ is_loaded["manga_ocr"] /\ is_loaded["paddle_ocr"]
    /\ loads[1].eng = "manga_ocr" /\ loads[1].res = "ok"

\* C10: the manager's perform_ocr runs on the selected variant's engine only:
\* when that engine is not Loaded the call fails without calling any model,
\* and an error of the engine's inference reaches the caller as that error.
C10_ManagerInfer ==
    inf.via = "manager" =>
        /\ inf.eng = inf.sel
        /\ (inf.pc = "done" /\ inf.chk # "Loaded")
              => (InferOutcome = "not_loaded" /\ ~inf.called)
        /\ (inf.pc = "done" /\ inf.res \in InferErrors) => InferOutcome = inf.res

\* The manager's perform_ocr has failed on a selected variant that is not
\* loaded while the other variant is.
C10_Witness ==
    /\ inf.via = "manager" /\ inf.pc = "done" /\ inf.res = "not_loaded"
    /\ ~is_loaded[inf.sel]
    /\ current_engine = inf.sel
    /\ \E o \in Engines : o # inf.sel /\ is_loaded[o]
\* --------------------------------------------------- macro controller

\* is_available
IsAvailableBoth == avail.keyboard /\ avail.mouse
IsAvailable == avail.keyboard \/ avail.mouse

\* The InputEvent _on_keyboard_event builds from a keyboard event.
KeyEvent(name, type, ts) ==
    [type |-> IF type = "down" THEN "key_down" ELSE "key_up",
     key |-> name, timestamp |-> ts]

\* The InputEvent _on_mouse_event builds from a mouse event.
MouseEvent(kind, ts) ==
    [type |-> CASE kind = "down"  -> "mouse_down"
                [] kind = "up"    -> "mouse_up"
                [] kind = "click" -> "mouse_click"
                [] kind = "move"  -> "mouse_move"
                [] OTHER          -> "mouse_scroll",
     key |-> "", timestamp |-> ts]

\* A log of n events as a caller passes it to play() or load_events().
RECURSIVE SampleLog(_)
SampleLog(n) ==
    IF n = 0 THEN <<>>
    ELSE Append(SampleLog(n - 1),
                IF n % 2 = 1 THEN KeyEvent("a", "down", 0)
                             ELSE MouseEvent("move", 1))

SampleLogs == {SampleLog(n) : n \in 0..MaxEvents}

\* start_recording(): hookK and hookM tell whether keyboard.hook and
\* mouse.hook succeed (their exceptions are caught).
StartRecordingNeverRefuses == FALSE
StartRecordingRefuses == macro_state # "idle"
StartRecording(hookK, hookM) ==
    /\ th["ui"].pc = "idle"
    /\ IF StartRecordingRefuses \/ ~IsAvailable
       THEN /\ ret' = [op |-> "start_recording", val |-> FALSE]
            /\ UNCHANGED <<macro_state, events, elapsed, hooked, rnote>>
       ELSE /\ events' = <<>>
            /\ elapsed' = 0
            /\ macro_state' = "recording"
            /\ hooked' = [hooked EXCEPT
                   !.kb = @ \/ (avail.keyboard /\ hookK),
                   !.ms = @ \/ (avail.mouse /\ hookM)]
            /\ rnote' = [n |-> 0, log |-> <<>>]
            /\ ret' = [op |-> "start_recording", val |-> TRUE]
    /\ UNCHANGED <<kill_requested, avail, th, pw, held,
                   nonMacroVars>>

\* stop_recording(), line 185: called from the UI, by stop() or by the
\* keyboard listener on the kill key.
StopRecordingCheck(t) ==
    /\ \/ t = "ui" /\ th[t].pc = "idle"
       \/ th[t].pc = "stop_recording"
    /\ th' = [th EXCEPT ![t].pc = IF macro_state = "recording"
                                  THEN "unhook" ELSE "idle",
                        ![t].sr = IF macro_state = "recording"
                                  THEN "recording" ELSE "noop"]
    /\ held' = IF macro_state = "recording" THEN held ELSE ReturnedEvents
    /\ UNCHANGED <<macro_state, events, elapsed, kill_requested, avail,
                   hooked, pw, ret, rnote, nonMacroVars>>

StopRecordingSilent(t) ==
    /\ th[t].pc = "unhook"
    /\ macro_state' = "idle"
    /\ th' = [th EXCEPT ![t].pc = "idle", ![t].sr = "done"]
    /\ UNCHANGED <<events, elapsed, kill_requested, avail, hooked, pw, ret,
                   rnote, held,
                   nonMacroVars>>

\* stop_recording(), lines 188-201: keyboard.unhook_all() and
\* mouse.unhook_all() remove every hook of their library, the hotkey of the
\* main window with them.
UnhookAllRemoves(hotkey) ==
    \/ hotkey = "keyboard" /\ avail.keyboard
    \/ hotkey = "mouse" /\ avail.mouse

\* stop_recording(), lines 187-209: unhook_all, Idle, on_recording_complete.
StopRecordingFinish(t) ==
    /\ th[t].pc = "unhook"
    /\ hooked' = [kb   |-> IF avail.keyboard THEN FALSE ELSE hooked.kb,
                  kill |-> IF avail.keyboard THEN FALSE ELSE hooked.kill,
                  hotkey |-> IF UnhookAllRemoves(hooked.hotkey)
                             THEN "none" ELSE hooked.hotkey,
                  ms   |-> IF avail.mouse THEN FALSE ELSE hooked.ms]
    /\ macro_state' = "idle"
    /\ rnote' = [n |-> IF rnote.n < 2 THEN rnote.n + 1 ELSE 2, log |-> events]
    /\ th' = [th EXCEPT ![t].pc = "idle", ![t].sr = "done"]
    /\ held' = ReturnedEvents
    /\ UNCHANGED <<events, elapsed, kill_requested, avail, pw, ret, nonMacroVars>>

\* The playback worker once the cancellation flag is set: the record keeps
\* where the worker was when the flag was first set.
KillSet ==
    IF pw.killed THEN pw
    ELSE [pw EXCEPT !.killed = TRUE, !.killN = Len(pw.played), !.killPc = pw.pc]

\* stop()
Stop ==
    /\ th["ui"].pc = "idle"
    /\ IF macro_state = "recording"
       THEN /\ th' = [th EXCEPT !["ui"].pc = "stop_recording"]
            /\ UNCHANGED <<kill_requested, pw>>
       ELSE IF macro_state = "playing"
       THEN /\ kill_requested' = TRUE
            /\ pw' = KillSet
            /\ UNCHANGED th
       ELSE UNCHANGED <<kill_requested, pw, th>>
    /\ UNCHANGED <<macro_state, events, elapsed, avail, hooked, ret, rnote,
                   held,
                   nonMacroVars>>

\* The keyboard library calls _on_keyboard_event on its listener thread.
OnKeyboardEvent(name, type) ==
    /\ hooked.kb
    /\ th["kb"].pc = "idle"
    /\ th' = [th EXCEPT !["kb"] = [pc |-> "on_event", name |-> name,
                                   type |-> type, ts |-> 0, sr |-> "none",
                                   late |-> FALSE]]
    /\ UNCHANGED <<macro_state, events, elapsed, kill_requested, avail,
                   hooked, pw, ret, rnote, held,
                   nonMacroVars>>

\* _on_keyboard_event, lines 213-223: the state check, the kill key, the
\* timestamp.
IsKillPress(name, type) == name = KillKey /\ type = "down"
KeyboardCheck ==
    /\ th["kb"].pc = "on_event"
    /\ th' = [th EXCEPT
          !["kb"].pc = IF macro_state # "recording" THEN "idle"
                       ELSE IF IsKillPress(th["kb"].name, th["kb"].type)
                            THEN "stop_recording"
                            ELSE "append",
          !["kb"].ts = elapsed]
    /\ UNCHANGED <<macro_state, events, elapsed, kill_requested, avail,
                   hooked, pw, ret, rnote, held,
                   nonMacroVars>>

\* The mouse library calls _on_mouse_event on its listener thread.
OnMouseEvent(kind) ==
    /\ hooked.ms
    /\ th["ms"].pc = "idle"
    /\ th' = [th EXCEPT !["ms"] = [pc |-> "on_event", name |-> kind,
                                   type |-> "", ts |-> 0, sr |-> "none",
                                   late |-> FALSE]]
    /\ UNCHANGED <<macro_state, events, elapsed, kill_requested, avail,
                   hooked, pw, ret, rnote, held,
                   nonMacroVars>>

\* The keyboard listener has seen the kill key while Recording and is in
\* the stop_recording() it calls.
KillKeySeen == th["kb"].pc \in {"stop_recording", "unhook"}

\* _on_mouse_event, lines 233-236: the state check and the timestamp.
MouseCheck ==
    /\ th["ms"].pc = "on_event"
    /\ th' = [th EXCEPT
          !["ms"].pc = IF macro_state # "recording" THEN "idle" ELSE "append",
          !["ms"].ts = elapsed,
          !["ms"].late = KillKeySeen]
    /\ UNCHANGED <<macro_state, events, elapsed, kill_requested, avail,
                   hooked, pw, ret, rnote, held,
                   nonMacroVars>>

\* self._events.append(...) of either listener.
AppendEvent(t) ==
    /\ t \in {"kb", "ms"}
    /\ th[t].pc = "append"
    /\ Len(events) < MaxEvents
    /\ events' = Append(events,
                        IF t = "kb"
                        THEN KeyEvent(th[t].name, th[t].type, th[t].ts)
                        ELSE MouseEvent(th[t].name, th[t].ts))
    /\ th' = [th EXCEPT ![t].pc = "idle"]
    /\ UNCHANGED <<macro_state, elapsed, kill_requested, avail, hooked, pw,
                   ret, rnote, held,
                   nonMacroVars>>

\* The clock advances while a recording runs.
Tick ==
    /\ macro_state = "recording"
    /\ elapsed < MaxTime
    /\ elapsed' = elapsed + 1
    /\ UNCHANGED <<macro_state, events, kill_requested, avail, hooked, th,
                   pw, ret, rnote, held,
                   nonMacroVars>>

\* play(events): given tells whether the argument was passed; hookK tells
\* whether keyboard.on_press succeeds.
PlayRefusesWhenBusy(events_to_play) == macro_state # "idle"
PlayRefuses(events_to_play) == macro_state # "idle" \/ events_to_play = <<>>
Play(given, log, hookK) ==
    LET events_to_play == IF given THEN log ELSE events IN
    /\ th["ui"].pc = "idle"
    /\ IF PlayRefuses(events_to_play)
       THEN /\ ret' = [op |-> "play", val |-> FALSE]
            /\ UNCHANGED <<macro_state, kill_requested, hooked, pw>>
       ELSE /\ kill_requested' = FALSE
            /\ macro_state' = "playing"
            /\ hooked' = [hooked EXCEPT !.kill = @ \/ (avail.keyboard /\ hookK)]
            /\ pw' = [NoWorker EXCEPT !.pc = "start", !.alias = ~given,
                                      !.log = events_to_play,
                                      !.src = events_to_play]
            /\ ret' = [op |-> "play", val |-> TRUE]
    /\ UNCHANGED <<events, elapsed, avail, th, rnote, held,
                   nonMacroVars>>

\* _on_kill_key on the keyboard listener thread.
OnKillKey ==
    /\ hooked.kill
    /\ th["kb"].pc = "idle"
    /\ macro_state = "playing"
    /\ kill_requested' = TRUE
    /\ pw' = KillSet
    /\ UNCHANGED <<macro_state, events, elapsed, avail, hooked, th, ret,
                   rnote, held,
                   nonMacroVars>>

\* The list the worker iterates.
PlayedList == IF pw.alias THEN events ELSE pw.log

\* _playback_worker, lines 317-325: the imports.
PlaybackStart ==
    /\ pw.pc = "start"
    /\ IF avail.keyboard /\ avail.mouse
       THEN /\ pw' = [pw EXCEPT !.pc = "next"]
            /\ UNCHANGED macro_state
       ELSE /\ macro_state' = "idle"
            /\ pw' = [pw EXCEPT !.pc = "done"]
    /\ UNCHANGED <<events, elapsed, kill_requested, avail, hooked, th, ret,
                   rnote, held,
                   nonMacroVars>>

\* lines 327-329: the iterator's next event, the first check of the flag.
PlaybackNext ==
    /\ pw.pc = "next"
    /\ IF pw.i > Len(PlayedList) \/ kill_requested
       THEN pw' = [pw EXCEPT !.pc = "cleanup"]
       ELSE pw' = [pw EXCEPT !.pc = "sleep", !.cur = PlayedList[pw.i],
                             !.i = @ + 1]
    /\ UNCHANGED <<macro_state, events, elapsed, kill_requested, avail,
                   hooked, th, ret, rnote, held,
                   nonMacroVars>>

\* lines 332-339: after the sleep, the second check of the flag.
SecondCheckSkipped == FALSE
SecondCheckAborts == kill_requested
PlaybackCheck ==
    /\ pw.pc = "sleep"
    /\ pw' = [pw EXCEPT !.pc = IF SecondCheckAborts THEN "cleanup" ELSE "exec"]
    /\ UNCHANGED <<macro_state, events, elapsed, kill_requested, avail,
                   hooked, th, ret, rnote, held,
                   nonMacroVars>>

\* lines 341-345: _execute_event(event); what it raises is caught.
ExecuteEvent ==
    /\ pw.pc = "exec"
    /\ pw' = [pw EXCEPT !.pc = "next", !.played = Append(@, pw.cur)]
    /\ UNCHANGED <<macro_state, events, elapsed, kill_requested, avail,
                   hooked, th, ret, rnote, held,
                   nonMacroVars>>

\* lines 347-358: the kill-key listener is removed, Idle, on_playback_complete.
PlaybackCleanup ==
    /\ pw.pc = "cleanup"
    /\ hooked' = [hooked EXCEPT !.kill = IF avail.keyboard THEN FALSE ELSE @]
    /\ macro_state' = "idle"
    /\ pw' = [pw EXCEPT !.pc = "done", !.notes = @ + 1]
    /\ UNCHANGED <<events, elapsed, kill_requested, avail, th, ret, rnote,
                   held,
                   nonMacroVars>>

\* clear_events(): the list is emptied in place.
ClearEvents ==
    /\ th["ui"].pc = "idle"
    /\ events # <<>>
    /\ events' = <<>>
    /\ UNCHANGED <<macro_state, elapsed, kill_requested, avail, hooked, th,
                   pw, ret, rnote, held,
                   nonMacroVars>>

\* load_events(data): _events is bound to a new list; a worker that iterates
\* the old list keeps it.
LoadEvents(data) ==
    /\ th["ui"].pc = "idle"
    /\ events' = data
    /\ pw' = IF pw.alias THEN [pw EXCEPT !.alias = FALSE, !.log = events]
             ELSE pw
    /\ held' = IF held.alias THEN [held EXCEPT !.alias = FALSE, !.log = events]
               ELSE held
    /\ UNCHANGED <<macro_state, elapsed, kill_requested, avail, hooked, th,
                   ret, rnote, nonMacroVars>>

\* The threads of a recording.
Recording ==
    \/ \E t \in {"ui", "kb"} : StopRecordingCheck(t)
    \/ \E t \in {"ui", "kb"} : StopRecordingFinish(t)
    \/ \E name \in {"a", KillKey} : OnKeyboardEvent(name, "down")
    \/ KeyboardCheck
    \/ OnMouseEvent("move")
    \/ MouseCheck
    \/ \E t \in {"kb", "ms"} : AppendEvent(t)

\* The playback worker and the kill-key listener.
Playback ==
    \/ OnKillKey
    \/ PlaybackStart
    \/ PlaybackNext
    \/ PlaybackCheck
    \/ ExecuteEvent
    \/ PlaybackCleanup

\* The UI thread's operations and the playback worker, with no input
\* arriving while a recording runs.
PlayNext ==
    \/ \E k \in BOOLEAN, m \in BOOLEAN : StartRecording(k, m)
    \/ Stop
    \/ StopRecordingCheck("ui")
    \/ StopRecordingFinish("ui")
    \/ \E log \in SampleLogs, k \in BOOLEAN : Play(TRUE, log, k)
    \/ \E k \in BOOLEAN : Play(FALSE, <<>>, k)
    \/ Playback
    \/ ClearEvents
    \/ \E data \in SampleLogs : LoadEvents(data)

PlaySpec == MacroInit /\ [][PlayNext]_vars

\* Recordings only, on a running clock.
RecordNext ==
    \/ \E k \in BOOLEAN, m \in BOOLEAN : StartRecording(k, m)
    \/ Stop
    \/ Recording
    \/ Tick

RecordSpec == MacroInit /\ [][RecordNext]_vars


\* ------------------------------------------------------ capture overlay
\* Where the pointer can be, in global coordinates: in the margins and in
\* the interior of the initial window.
PointerXs == {100, 105, 130, 395, 400}
PointerYs == {100, 115, 145, 150}

\* The part of the display the pointer moves the window in: the window is
\* not dragged or stretched across its border.
Desk == [x |-> 100, y |-> 100, w |-> 300, h |-> 50]

OnDesk(g) ==
    /\ Desk.x <= g.x /\ g.x + g.w <= Desk.x + Desk.w
    /\ Desk.y <= g.y /\ g.y + g.h <= Desk.y + Desk.h

MaxIsFirst(a, b) == a

Max(a, b) == IF a >= b THEN a ELSE b

\* The edges and corners on each side of the window.
East  == {"RIGHT", "TOP_RIGHT", "BOTTOM_RIGHT"}
South == {"BOTTOM", "BOTTOM_LEFT", "BOTTOM_RIGHT"}
West  == {"LEFT", "TOP_LEFT", "BOTTOM_LEFT"}
North == {"TOP", "TOP_LEFT", "TOP_RIGHT"}

\* _get_resize_edge(pos) with the edges tested before the corners.
GetResizeEdgeEdgesFirst(px, py, w, h) ==
    LET m == RESIZE_MARGIN IN
    IF px < m THEN "LEFT"
    ELSE IF px > w - m THEN "RIGHT"
    ELSE IF py < m THEN "TOP"
    ELSE IF py > h - m THEN "BOTTOM"
    ELSE "NONE"

\* _get_resize_edge(pos), pos relative to the window of size w by h.
GetResizeEdge(px, py, w, h) ==
    LET m == RESIZE_MARGIN IN
    IF px < m /\ py < m THEN "TOP_LEFT"
    ELSE IF px > w - m /\ py < m THEN "TOP_RIGHT"
    ELSE IF px < m /\ py > h - m THEN "BOTTOM_LEFT"
    ELSE IF px > w - m /\ py > h - m THEN "BOTTOM_RIGHT"
    ELSE IF px < m THEN "LEFT"
    ELSE IF px > w - m THEN "RIGHT"
    ELSE IF py < m THEN "TOP"
    ELSE IF py > h - m THEN "BOTTOM"
    ELSE "NONE"

\* QWidget.setGeometry on a window whose minimum size is MIN_SIZE.
SetGeometry(x, y, w, h) ==
    [x |-> x, y |-> y, w |-> Max(w, MIN_SIZE), h |-> Max(h, MIN_SIZE)]

\* _do_resize(global_pos) on geometry g with edge recorded: the geometry it
\* passes to setGeometry.
DoResize(g, edge, gx, gy) ==
    LET dx == gx - g.x
        dy == gy - g.y
        w1 == IF edge \in East THEN Max(MIN_SIZE, dx) ELSE g.w
        h1 == IF edge \in South THEN Max(MIN_SIZE, dy) ELSE g.h
        new_w == w1 - dx
        new_h == h1 - dy
        westFits == edge \in West /\ new_w >= MIN_SIZE
        northFits == edge \in North /\ new_h >= MIN_SIZE
    IN  SetGeometry(IF westFits THEN g.x + dx ELSE g.x,
                    IF northFits THEN g.y + dy ELSE g.y,
                    IF edge \in West
                    THEN (IF westFits THEN new_w ELSE MIN_SIZE) ELSE w1,
                    IF edge \in North
                    THEN (IF northFits THEN new_h ELSE MIN_SIZE) ELSE h1)

\* mousePressEvent, left button, with the pointer over the window, which
\* is on the screen.
MousePress(gx, gy) ==
    LET px == gx - geom.x
        py == gy - geom.y
        edge == GetResizeEdge(px, py, geom.w, geom.h)
    IN  /\ visible
        /\ 0 <= px /\ px < geom.w /\ 0 <= py /\ py < geom.h
        /\ IF edge # "NONE"
           THEN /\ resizing' = TRUE
                /\ resize_edge' = edge
                /\ UNCHANGED <<dragging, drag_start>>
           ELSE /\ dragging' = TRUE
                /\ drag_start' = [set |-> TRUE, x |-> px, y |-> py]
                /\ UNCHANGED <<resizing, resize_edge>>
        /\ changed' = 0
        /\ UNCHANGED <<geom, captureVars, restored, nonOverlayVars>>

\* mouseMoveEvent
MouseMove(gx, gy) ==
    /\ visible
    /\ IF dragging /\ drag_start.set
       THEN geom' = [geom EXCEPT !.x = gx - drag_start.x,
                                 !.y = gy - drag_start.y]
       ELSE IF resizing
       THEN geom' = DoResize(geom, resize_edge, gx, gy)
       ELSE UNCHANGED geom
    /\ OnDesk(geom')
    /\ UNCHANGED <<pointerVars, captureVars, restored, nonOverlayVars>>

\* mouseReleaseEvent emits geometryChanged.
ReleaseAlwaysReports == TRUE

ReleaseReports == dragging \/ resizing

\* mouseReleaseEvent, left button
MouseRelease ==
    /\ visible
    /\ changed' = IF ReleaseReports THEN changed + 1 ELSE changed
    /\ dragging' = FALSE
    /\ resizing' = FALSE
    /\ drag_start' = NoPoint
    /\ resize_edge' = "NONE"
    /\ UNCHANGED <<geom, captureVars, restored, nonOverlayVars>>

\* The pointer events of the overlay.
OverlayNext ==
    \/ \E gx \in PointerXs, gy \in PointerYs : MousePress(gx, gy)
    \/ \E gx \in PointerXs, gy \in PointerYs : MouseMove(gx, gy)
    \/ MouseRelease

OverlaySpec == Init /\ [][OverlayNext]_vars

\* ---------------------------------------------------------------- capture
\* The rectangles set_capture_rect is called with: the initial one, one on
\* a display to the left of the primary one, one below the minimum size
\* and one beyond every display.
Regions ==
    { [x |-> 100, y |-> 100, w |-> 300, h |-> 50],
      [x |-> -200, y |-> 120, w |-> 40, h |-> 35],
      [x |-> 110, y |-> 105, w |-> 10, h |-> 20],
      [x |-> 5000, y |-> 5000, w |-> 60, h |-> 40] }

\* set_capture_rect(x, y, width, height)
SetCaptureRect(r) ==
    /\ geom' = SetGeometry(r.x, r.y, Max(r.w, MIN_SIZE), Max(r.h, MIN_SIZE))
    /\ UNCHANGED <<pointerVars, captureVars, restored, nonOverlayVars>>

\* The capture_region calls made so far.
Triggers == Len(pending) + Len(grabs) + skipped

\* The capture_region call is skipped: "Hotkey is paused".
NeverPaused == FALSE

Paused == ~hotkey_enabled

\* The box capture_region hands to the timer: the whole window.
CaptureBoxWithBorder(g) ==
    [x1 |-> g.x, y1 |-> g.y, x2 |-> g.x + g.w, y2 |-> g.y + g.h]

\* The box capture_region hands to the timer: the window without its border.
CaptureBox(g) ==
    [x1 |-> g.x + BORDER_WIDTH, y1 |-> g.y + BORDER_WIDTH,
     x2 |-> g.x + g.w - BORDER_WIDTH, y2 |-> g.y + g.h - BORDER_WIDTH]

\* capture_region(): a paused overlay returns at once; an armed one takes
\* the rectangle inside the border, hides the window and starts the timer.
\* The timer is remembered with the number of the call and the geometry
\* the call saw.
CaptureRegion ==
    /\ Triggers < MaxCaptures
    /\ IF Paused
       THEN /\ skipped' = skipped + 1
            /\ UNCHANGED <<visible, pending>>
       ELSE /\ pending' = Append(pending, [id |-> Triggers + 1,
                                           region |-> geom,
                                           box |-> CaptureBox(geom)])
            /\ visible' = FALSE
            /\ UNCHANGED skipped
    /\ UNCHANGED <<geom, pointerVars, hotkey_enabled, grabs, captured,
                   restored, nonOverlayVars>>

\* MainWindow._do_capture_from_hotkey: the hotkey reaches capture_region
\* on a visible, armed overlay only.
DoCaptureFromHotkey ==
    /\ visible /\ hotkey_enabled
    /\ CaptureRegion

\* MainWindow._manual_capture: the button reaches capture_region on a
\* visible overlay.
ManualCapture ==
    /\ visible
    /\ CaptureRegion

\* ImageGrab.grab(bbox): the image has the size of the box.
Grab(t) ==
    [id |-> t.id, region |-> t.region,
     w |-> t.box.x2 - t.box.x1, h |-> t.box.y2 - t.box.y1]

\* _do_capture(x1, y1, x2, y2), run by the oldest timer; ok is FALSE when
\* ImageGrab.grab raises.
DoCapture(ok) ==
    /\ pending # <<>>
    /\ LET t == Head(pending) IN
         /\ grabs' = Append(grabs, [id |-> t.id, box |-> t.box,
                                    hidden |-> ~visible, geom |-> geom,
                                    ok |-> ok])
         /\ captured' = IF ok THEN Append(captured, Grab(t)) ELSE captured
    /\ pending' = Tail(pending)
    /\ visible' = TRUE
    /\ UNCHANGED <<geom, pointerVars, hotkey_enabled, skipped, restored,
                   nonOverlayVars>>

\* _toggle_hotkey, by a click on the toggle button of the visible overlay.
ToggleHotkey ==
    /\ visible
    /\ hotkey_enabled' = ~hotkey_enabled
    /\ UNCHANGED <<geom, pointerVars, visible, pending, grabs, captured,
                   skipped, restored, nonOverlayVars>>

\* MainWindow._show_overlay on the overlay it has created: show().
ShowOverlay ==
    /\ ~visible
    /\ visible' = TRUE
    /\ UNCHANGED <<geom, pointerVars, hotkey_enabled, pending, grabs,
                   captured, skipped, restored, nonOverlayVars>>

\* MainWindow._hide_overlay and keyPressEvent(Escape): hide().
HideOverlay ==
    /\ visible
    /\ visible' = FALSE
    /\ UNCHANGED <<geom, pointerVars, hotkey_enabled, pending, grabs,
                   captured, skipped, restored, nonOverlayVars>>

\* The rectangles the window is moved to between captures.
Moves == {r \in Regions : r.y >= 100 /\ r.y <= 120 /\ r.w >= MIN_SIZE}

\* Captures, with the window shown, hidden, paused and moved in between.
CaptureNext ==
    \/ DoCaptureFromHotkey
    \/ ManualCapture
    \/ \E ok \in BOOLEAN : DoCapture(ok)
    \/ ToggleHotkey
    \/ ShowOverlay
    \/ HideOverlay
    \/ \E r \in Moves : SetCaptureRect(r)

CaptureSpec == Init /\ [][CaptureNext]_vars


\* ---------------------------------------------------------- geometry string
\* A string is the sequence of its characters.
Digits == <<"0", "1", "2", "3", "4", "5", "6", "7", "8", "9">>

IsDigit(c) == \E d \in 0..9 : Digits[d + 1] = c

DigitOf(c) == CHOOSE d \in 0..9 : Digits[d + 1] = c

\* f"{n}" of an int: the decimal digits, after a minus sign when negative.
RECURSIVE NatToStr(_)
NatToStr(n) ==
    IF n < 10 THEN <<Digits[n + 1]>>
    ELSE Append(NatToStr(n \div 10), Digits[(n % 10) + 1])

IntToStr(n) == IF n < 0 THEN <<"-">> \o NatToStr(0 - n) ELSE NatToStr(n)

\* save_geometry_string() of a window with geometry g
SaveGeometryString(g) ==
    IntToStr(g.w) \o <<"x">> \o IntToStr(g.h) \o <<"+">> \o IntToStr(g.x)
        \o <<"+">> \o IntToStr(g.y)

\* str.replace(old, new) for one-character old and new
Replace(str, old, new) ==
    [i \in DOMAIN str |-> IF str[i] = old THEN new ELSE str[i]]

\* str.split(sep): the pieces between the separators, empty ones included
RECURSIVE Split(_, _)
Split(str, sep) ==
    IF \A i \in DOMAIN str : str[i] # sep THEN <<str>>
    ELSE LET k == CHOOSE i \in DOMAIN str :
                      str[i] = sep /\ \A j \in 1..(i - 1) : str[j] # sep
         IN  <<SubSeq(str, 1, k - 1)>> \o Split(SubSeq(str, k + 1, Len(str)), sep)

\* str.strip() as int() applies it, for the blank
RECURSIVE Strip(_)
Strip(str) ==
    IF str = <<>> THEN str
    ELSE IF Head(str) = " " THEN Strip(Tail(str))
    ELSE IF str[Len(str)] = " " THEN Strip(SubSeq(str, 1, Len(str) - 1))
    ELSE str

RECURSIVE StripZeros(_)
StripZeros(str) ==
    IF Len(str) > 1 /\ Head(str) = "0" THEN StripZeros(Tail(str)) ELSE str

\* The digit string a is a larger number than the digit string b of the
\* same length.
DigitsGreater(a, b) ==
    \E i \in DOMAIN a :
        /\ DigitOf(a[i]) > DigitOf(b[i])
        /\ \A j \in 1..(i - 1) : a[j] = b[j]

\* The number does not fit the C int a QRect holds.
OverflowsInt(negative, digits) ==
    LET z == StripZeros(digits)
        top == IF negative
               THEN <<"2", "1", "4", "7", "4", "8", "3", "6", "4", "8">>
               ELSE <<"2", "1", "4", "7", "4", "8", "3", "6", "4", "7">>
    IN  Len(z) > 10 \/ (Len(z) = 10 /\ DigitsGreater(z, top))

\* The value of a digit string, with the sign given.
RECURSIVE DigitsValue(_, _)
DigitsValue(negative, digits) ==
    IF digits = <<>> THEN 0
    ELSE LET d == DigitOf(digits[Len(digits)])
             rest == DigitsValue(negative, SubSeq(digits, 1, Len(digits) - 1))
         IN  IF negative THEN rest * 10 - d ELSE rest * 10 + d

\* int(str): blanks around the number and one sign are accepted; anything
\* else is a ValueError.  A Python int has no width: big says that the
\* value is outside the C int range, and val is the value when it is not.
PyIntUnsigned(str) ==
    LET t == Strip(str)
    IN  IF t # <<>> /\ \A i \in DOMAIN t : IsDigit(t[i])
        THEN [ok |-> TRUE, big |-> OverflowsInt(FALSE, t),
              val |-> IF OverflowsInt(FALSE, t) THEN 0 ELSE DigitsValue(FALSE, t)]
        ELSE [ok |-> FALSE, big |-> FALSE, val |-> 0]

PyInt(str) ==
    LET t == Strip(str)
        signed == t # <<>> /\ Head(t) \in {"-", "+"}
        negative == t # <<>> /\ Head(t) = "-"
        digits == IF signed THEN Tail(t) ELSE t
    IN  IF digits # <<>> /\ \A i \in DOMAIN digits : IsDigit(digits[i])
        THEN [ok |-> TRUE, big |-> OverflowsInt(negative, digits),
              val |-> IF OverflowsInt(negative, digits) THEN 0
                      ELSE DigitsValue(negative, digits)]
        ELSE [ok |-> FALSE, big |-> FALSE, val |-> 0]

\* QGuiApplication.screens(): the primary display and one to its left.
Screens ==
    { [x |-> 0, y |-> 0, w |-> 1920, h |-> 1080],
      [x |-> -1280, y |-> 0, w |-> 1280, h |-> 1024] }

\* QRect.intersects: a rectangle of no width and no height meets nothing;
\* a negative extent is taken from the other end.
QRectIntersects(a, b) ==
    LET Lo(p, n) == IF n < 0 THEN p + n ELSE p
        Hi(p, n) == IF n < 0 THEN p - 1 ELSE p + n - 1
        null(r) == r.w = 0 /\ r.h = 0
    IN  /\ ~null(a) /\ ~null(b)
        /\ Lo(a.x, a.w) <= Hi(b.x, b.w) /\ Lo(b.x, b.w) <= Hi(a.x, a.w)
        /\ Lo(a.y, a.h) <= Hi(b.y, b.h) /\ Lo(b.y, b.h) <= Hi(a.y, a.h)

\* _is_position_valid(x, y, w, h)
IsPositionValid(x, y, w, h) ==
    \E screen \in Screens :
        QRectIntersects(screen, [x |-> x, y |-> y, w |-> w, h |-> h])

\* restore_geometry_string(geometry_str) on a window of geometry g: what it
\* returns ("raised" when an exception leaves it) and the geometry after it.
RestoreResult(geometry_str, g) ==
    LET parts == Split(Replace(geometry_str, "x", "+"), "+")
        rejected == [ret |-> "false", geom |-> g]
    IN  IF Len(parts) < 4 THEN rejected
        ELSE LET w == PyInt(parts[1])
                 h == PyInt(parts[2])
                 x == PyInt(parts[3])
                 y == PyInt(parts[4])
             IN  IF ~(w.ok /\ h.ok /\ x.ok /\ y.ok) THEN rejected
                 ELSE IF w.big \/ h.big \/ x.big \/ y.big
                 THEN [ret |-> "raised", geom |-> g]
                 ELSE IF IsPositionValid(x.val, y.val, w.val, h.val)
                 THEN [ret |-> "true",
                       geom |-> SetGeometry(x.val, y.val,
                                            Max(w.val, MIN_SIZE),
                                            Max(h.val, MIN_SIZE))]
                 ELSE rejected

RestoreGeometryString(geometry_str) ==
    LET res == RestoreResult(geometry_str, geom) IN
    /\ geom' = res.geom
    /\ restored' = [str |-> geometry_str, ret |-> res.ret]
    /\ UNCHANGED <<pointerVars, captureVars, nonOverlayVars>>

\* Strings that are not what save_geometry_string writes: the empty one,
\* three fields, a field that is no number, a fifth field, "+" for "x", a
\* rectangle of no size, an X beyond the C int range, an empty field and
\* a blank before the width.
OddStrings ==
    { <<>>,
      <<"4", "0", "x", "4", "0", "+", "+", "5", "+", "5">>,
      <<" ", "4", "0", "x", "4", "0", "+", "5", "+", "5">>,
      <<"4", "0", "x", "4", "0", "+", "5">>,
      <<"4", "a", "x", "4", "0", "+", "5", "+", "5">>,
      <<"4", "0", "x", "4", "0", "+", "5", "+", "5", "+", "7">>,
      <<"4", "0", "+", "4", "0", "+", "5", "+", "5">>,
      <<"0", "x", "0", "+", "5", "+", "5">>,
      <<"4", "0", "x", "4", "0", "+", "9", "9", "9", "9", "9", "9", "9", "9",
        "9", "9", "9", "+", "5">> }

\* Rectangles at the border of the displays: the last pixel of the primary
\* display, the first column beyond it, and the whole left display.
EdgeRegions ==
    { [x |-> 1919, y |-> 1079, w |-> 35, h |-> 35],
      [x |-> 1920, y |-> 0, w |-> 35, h |-> 35],
      [x |-> -1280, y |-> 0, w |-> 1280, h |-> 1024] }

\* The strings restore_geometry_string is called with.
GeometryStrings ==
    {SaveGeometryString(r) : r \in Regions \cup EdgeRegions} \cup OddStrings

\* The geometry is set, saved and restored.
RestoreNext ==
    \/ \E r \in Regions : SetCaptureRect(r)
    \/ \E str \in GeometryStrings : RestoreGeometryString(str)
    \/ RestoreGeometryString(SaveGeometryString(geom))

RestoreSpec == Init /\ [][RestoreNext]_vars

\* Pointer gestures, set_capture_rect and restore_geometry_string.
GeometryNext ==
    \/ \E gx \in PointerXs, gy \in PointerYs : MousePress(gx, gy)
    \/ \E gx \in PointerXs, gy \in PointerYs : MouseMove(gx, gy)
    \/ MouseRelease
    \/ \E r \in Regions : SetCaptureRect(r)
    \/ \E r \in Regions : RestoreGeometryString(SaveGeometryString(r))

GeometrySpec == Init /\ [][GeometryNext]_vars


\* ------------------------------------------------------- preprocessing
\* An image is its mode, its size and its pixels: the data, row by row, a
\* pixel being the tuple of its bands, and the filters of PIL and OpenCV
\* that have been applied to the data, in order.
Levels == {0, 255}

Bands(mode) == IF mode = "L" THEN 1 ELSE IF mode = "RGB" THEN 3 ELSE 4

Sizes == {<<1, 1>>, <<2, 1>>}

Images ==
    UNION { { [mode |-> mode, w |-> sz[1], h |-> sz[2],
               px |-> [data |-> data, filters |-> <<>>]] :
                data \in [1..(sz[1] * sz[2]) -> [1..Bands(mode) -> Levels]] } :
            mode \in {"RGB", "RGBA", "L"}, sz \in Sizes }

PreprocessingModes == {"none", "minimal", "enhanced", "advanced"}

UPSCALE_FACTOR == 2

\* Image.convert('RGB'): a grey value fills the three bands, the alpha band
\* is dropped.
ConvertRGB(image) ==
    [image EXCEPT
       !.mode = "RGB",
       !.px.data = [i \in DOMAIN image.px.data |->
                      LET p == image.px.data[i] IN
                      IF image.mode = "L" THEN <<p[1], p[1], p[1]>>
                      ELSE <<p[1], p[2], p[3]>>]]

\* The image a filter returns: same mode and size, pixels computed by it.
Filtered(name, image) ==
    [image EXCEPT !.px.filters = Append(image.px.filters, name)]

\* Image.resize and cv2.resize to UPSCALE_FACTOR times the size.
Upscaled(name, image) ==
    [mode |-> image.mode, w |-> image.w * UPSCALE_FACTOR,
     h |-> image.h * UPSCALE_FACTOR,
     px |-> [image.px EXCEPT !.filters = Append(image.px.filters, name)]]

Returned(image) == [raised |-> FALSE, image |-> image]

Raised(image) == [raised |-> TRUE, image |-> image]

\* preprocess_none(image)
PreprocessNone(image) ==
    IF image.mode # "RGB" THEN Returned(ConvertRGB(image)) ELSE Returned(image)

\* preprocess_minimal(image)
PreprocessMinimal(image) ==
    LET rgb == IF image.mode # "RGB" THEN ConvertRGB(image) ELSE image
    IN  Returned(Filtered("contrast_1.2", rgb))

\* preprocess_enhanced(image)
PreprocessEnhanced(image) ==
    LET rgb == IF image.mode # "RGB" THEN ConvertRGB(image) ELSE image
    IN  Returned(Filtered("sharpness_1.3",
                          Filtered("contrast_1.4", Upscaled("lanczos", rgb))))

\* preprocess_advanced(image): without cv2 it is preprocess_enhanced; with
\* cv2 a single-band array reaches cvtColor(BGR2GRAY), which raises.
PreprocessAdvanced(image) ==
    IF ~opencv_available THEN PreprocessEnhanced(image)
    ELSE IF image.mode = "L" THEN Raised(image)
    ELSE Returned(Filtered("denoise",
                           Filtered("threshold",
                                    Upscaled("lanczos4",
                                             Filtered("gray", ConvertRGB(image))))))

\* preprocess_image with every mode sent to preprocess_minimal.
PreprocessImageAlwaysMinimal(image, mode) == PreprocessMinimal(image)

\* preprocess_image(image, mode)
PreprocessImage(image, mode) ==
    IF mode = "none" THEN PreprocessNone(image)
    ELSE IF mode = "minimal" THEN PreprocessMinimal(image)
    ELSE IF mode = "enhanced" THEN PreprocessEnhanced(image)
    ELSE IF mode = "advanced" THEN PreprocessAdvanced(image)
    ELSE PreprocessNone(image)

\* A call of preprocess_image, the first one.
Preprocess(image, mode) ==
    /\ ~pre.called
    /\ pre' = [called |-> TRUE, image |-> image, mode |-> mode,
               out |-> PreprocessImage(image, mode)]
    /\ UNCHANGED <<opencv_available, nonImageVars>>

PreprocessNext ==
    \E image \in Images, mode \in PreprocessingModes : Preprocess(image, mode)

PreprocessSpec == PreprocessInit /\ [][PreprocessNext]_vars


\* ---------------------------------------------------- engine constructor
\* A constructor call has returned the instance of engine e: it is in use.
InUse(e) == \E t \in Ctors : ctor[t].pc = "done" /\ ctor[t].eng = e

\* __new__, line 33: the test of cls._instance made without the lock.
CtorNewCheck(t, e) ==
    /\ ctor[t].pc = "idle"
    /\ ctor' = [ctor EXCEPT ![t].pc = IF instance[e] = 0 THEN "lock" ELSE "init",
                            ![t].eng = e]
    /\ UNCHANGED <<instance, initialized, init_runs, pipe, ocrVars,
                   nonEngineVars>>

\* __new__, lines 34-36: under cls._lock the test is repeated and the
\* object is created when there is none.
CtorNewLocked(t) ==
    LET e == ctor[t].eng IN
    /\ ctor[t].pc = "lock"
    /\ instance' = [instance EXCEPT ![e] = IF @ = 0 THEN 1 ELSE @]
    /\ ctor' = [ctor EXCEPT ![t].pc = "init"]
    /\ UNCHANGED <<initialized, init_runs, pipe, ocrVars, nonEngineVars>>

\* __init__, lines 40-41: the test of cls._initialized, made without a lock.
InitSkipped(e) == initialized[e]

CtorInitCheck(t) ==
    LET e == ctor[t].eng IN
    /\ ctor[t].pc = "init"
    /\ ctor' = [ctor EXCEPT ![t].pc = IF InitSkipped(e) THEN "done" ELSE "body"]
    /\ UNCHANGED <<instance, initialized, init_runs, pipe, ocrVars,
                   nonEngineVars>>

\* __init__, lines 43-49: the fields are assigned, the lock and the event
\* are new objects.  late records that the instance was already in use.
CtorInitBody(t) ==
    LET e == ctor[t].eng IN
    /\ ctor[t].pc = "body"
    /\ mocr' = [mocr EXCEPT ![e] = FALSE]
    /\ is_loaded' = [is_loaded EXCEPT ![e] = FALSE]
    /\ is_loading' = [is_loading EXCEPT ![e] = FALSE]
    /\ load_error' = [load_error EXCEPT ![e] = NoError]
    /\ load_lock' = [load_lock EXCEPT ![e] = Free]
    /\ load_event' = [load_event EXCEPT ![e] = FALSE]
    /\ init_runs' = [init_runs EXCEPT ![e] = @ + 1]
    /\ ctor' = [ctor EXCEPT ![t].pc = "flag", ![t].late = InUse(e)]
    /\ UNCHANGED <<instance, initialized, pipe, current_engine, loads,
                   nCalls, unl, inf, wt, nonEngineVars>>

\* __init__, line 51: cls._initialized = True, and the call returns.
CtorInitFlag(t) ==
    LET e == ctor[t].eng IN
    /\ ctor[t].pc = "flag"
    /\ initialized' = [initialized EXCEPT ![e] = TRUE]
    /\ ctor' = [ctor EXCEPT ![t].pc = "done"]
    /\ UNCHANGED <<instance, init_runs, pipe, ocrVars, nonEngineVars>>

\* A thread that has been given the instance starts a load on it.
LoadInstance(e) ==
    /\ InUse(e)
    /\ LoadAsync(e, FALSE)

\* Threads that construct the engines for the first time and load them.
ConstructNext ==
    \/ \E t \in Ctors, e \in Direct : CtorNewCheck(t, e)
    \/ \E t \in Ctors : CtorNewLocked(t)
    \/ \E t \in Ctors : CtorInitCheck(t)
    \/ \E t \in Ctors : CtorInitBody(t)
    \/ \E t \in Ctors : CtorInitFlag(t)
    \/ \E e \in Direct : LoadInstance(e)
    \/ LoadWorker

ConstructSpec == ConstructInit /\ [][ConstructNext]_vars


\* ------------------------------------------------------ capture pipeline
\* _on_capture, lines 747-757: a capture arrives from the overlay; it is
\* refused while the current engine is not loaded.
OnCapture ==
    /\ pipe.pc = "idle"
    /\ pipe.n < MaxCaptures
    /\ IF is_loaded[current_engine]
       THEN pipe' = [pipe EXCEPT !.pc = "processing", !.n = @ + 1,
                                 !.shown = "processing"]
       ELSE pipe' = [pipe EXCEPT !.n = @ + 1, !.shown = "not_ready"]
    /\ UNCHANGED <<instance, initialized, init_runs, ctor, ocrVars,
                   nonEngineVars>>

\* The texts perform_ocr returns: some text, or "" when none is found.
Texts == {"text", ""}

\* process(), lines 760-775: preprocess_image and perform_ocr return, the
\* text is emitted with ocrCompleted.
ProcessReturns(text) ==
    /\ pipe.pc = "processing"
    /\ pipe' = [pipe EXCEPT !.pc = "completed", !.text = text]
    /\ UNCHANGED <<instance, initialized, init_runs, ctor, ocrVars,
                   nonEngineVars>>

\* process(), lines 777-779: preprocess_image or perform_ocr raises, the
\* message is emitted with ocrError.
ProcessRaises ==
    /\ pipe.pc = "processing"
    /\ pipe' = [pipe EXCEPT !.pc = "failed", !.text = ""]
    /\ UNCHANGED <<instance, initialized, init_runs, ctor, ocrVars,
                   nonEngineVars>>

\* _on_ocr_complete, line 786: the test that selects the result branch.
HasResult(text) == text # ""

\* _on_ocr_complete, lines 808-812: the macro is run.
RunsMacro == pipe.macro_enabled /\ pipe.macro_events # <<>>

\* _on_ocr_complete on the UI thread: the result is shown and, lines
\* 808-812, load_events(events) and play() are called.
OnOcrComplete(hookK) ==
    /\ pipe.pc = "completed"
    /\ th["ui"].pc = "idle"
    /\ pipe' = [pipe EXCEPT !.pc = "idle",
                   !.shown = IF HasResult(pipe.text) THEN "result"
                             ELSE "no_text"]
    /\ IF HasResult(pipe.text) /\ RunsMacro
       THEN /\ events' = pipe.macro_events
            /\ held' = IF held.alias
                       THEN [held EXCEPT !.alias = FALSE, !.log = events]
                       ELSE held
            /\ IF macro_state # "idle"
               THEN /\ pw' = IF pw.alias
                             THEN [pw EXCEPT !.alias = FALSE, !.log = events]
                             ELSE pw
                    /\ ret' = [op |-> "play", val |-> FALSE]
                    /\ UNCHANGED <<macro_state, kill_requested, hooked>>
               ELSE /\ kill_requested' = FALSE
                    /\ macro_state' = "playing"
                    /\ hooked' = [hooked EXCEPT
                           !.kill = @ \/ (avail.keyboard /\ hookK)]
                    /\ pw' = [NoWorker EXCEPT !.pc = "start", !.alias = TRUE,
                                              !.log = pipe.macro_events,
                                              !.src = pipe.macro_events]
                    /\ ret' = [op |-> "play", val |-> TRUE]
       ELSE UNCHANGED <<events, held, macro_state, kill_requested, hooked,
                        pw, ret>>
    /\ UNCHANGED <<elapsed, avail, th, rnote, instance, initialized,
                   init_runs, ctor, ocrVars, overlayVars, imageVars>>

\* _on_ocr_error on the UI thread.
OnOcrError ==
    /\ pipe.pc = "failed"
    /\ pipe' = [pipe EXCEPT !.pc = "idle", !.shown = "error"]
    /\ UNCHANGED <<instance, initialized, init_runs, ctor, ocrVars,
                   nonEngineVars>>

\* The settings a user has saved: the macro switch and the stored log.
PipelineInit ==
    /\ EngineInit
    /\ MacroStart(TRUE, TRUE, FALSE)
    /\ OverlayStart
    /\ ImageStart(TRUE)
    /\ CtorStart(TRUE)
    /\ \E enabled \in BOOLEAN, stored \in SampleLogs :
           pipe = IdlePipe(enabled, stored)

\* The engine is loaded, captures are recognized, the macro is played.
PipelineNext ==
    \/ LoadAsync("manga_ocr", FALSE)
    \/ LoadWorker
    \/ OnCapture
    \/ \E text \in Texts : ProcessReturns(text)
    \/ ProcessRaises
    \/ \E k \in BOOLEAN : OnOcrComplete(k)
    \/ OnOcrError
    \/ Playback

PipelineSpec == PipelineInit /\ [][PipelineNext]_vars


\* ------------------------------------------------- macro controller claims
\* A recording is running: the state says so or a recording hook is held.
RecordingActive == macro_state = "recording" \/ hooked.kb \/ hooked.ms

\* A playback is running: the state says so or the worker is alive.
PlaybackActive == macro_state = "playing" \/ pw.pc \notin {"none", "done"}

\* A step is a call of start_recording() or of play().
StartRecordingCalled == \E k \in BOOLEAN, m \in BOOLEAN : StartRecording(k, m)
PlayCalled ==
    \E given \in BOOLEAN, log \in SampleLogs, k \in BOOLEAN : Play(given, log, k)

C12_NoEventAfterFlag == pw.killed => Len(pw.played) = pw.killN

\* C12: a cancellation flag set before the worker has made the check that
\* follows the sleep (line 338) aborts the playback before the next event is
\* executed; a flag set after that check and before _execute_event lets this
\* one event through and none after it.
C12_AbortAtNextCheck ==
    pw.killed =>
        IF pw.killPc = "exec" THEN Len(pw.played) <= pw.killN + 1
                              ELSE Len(pw.played) = pw.killN

\* The flag was set during the sleep between the first and the second event
\* of a log of two, and the playback has ended.
C12_Witness ==
    /\ pw.pc = "done" /\ pw.killed /\ pw.killPc = "sleep"
    /\ pw.killN = 1 /\ Len(pw.src) = 2 /\ Len(pw.played) = 1

\* C13: a playback that has ended has removed the kill-key listener and has
\* called on_playback_complete exactly once, however it ended.
C13_PlaybackEnds == pw.pc = "done" => (pw.notes = 1 /\ ~hooked.kill)

\* Sequence a is a prefix of sequence b.
IsPrefix(a, b) == Len(a) <= Len(b) /\ \A i \in 1..Len(a) : a[i] = b[i]

\* C14: the events a playback has executed are a prefix of the log play()
\* was given, and a playback that ended with no cancellation requested has
\* executed the whole log.
C14_PrefixAndWhole ==
    /\ IsPrefix(pw.played, pw.src)
    /\ (pw.pc = "done" /\ ~pw.killed) => pw.played = pw.src

\* C18: play() returns true exactly when the controller is Idle and the log
\* to play (the argument, or _events when there is none) is not empty; a
\* call that returns true leaves the controller Playing with a new worker,
\* a call that returns false changes neither the state nor the worker.
C18_PlayResult ==
    [][\A given \in BOOLEAN, log \in SampleLogs, k \in BOOLEAN :
          Play(given, log, k) =>
              /\ ret'.val <=> (/\ macro_state = "idle"
                               /\ (IF given THEN log ELSE events) # <<>>)
              /\ ret'.val => (macro_state' = "playing" /\ pw'.pc = "start")
              /\ ~ret'.val => UNCHANGED <<macro_state, pw>>]_vars

\* play() with no argument has returned true on a log of two events and the
\* worker it started has not run yet.
C18_Witness ==
    /\ ret = [op |-> "play", val |-> TRUE]
    /\ macro_state = "playing" /\ pw.pc = "start"
    /\ pw.alias /\ Len(events) = 2

\* C19: while neither input library is available the controller stays Idle
\* and no playback worker exists.
C19_UnavailableStaysIdle ==
    (~avail.keyboard /\ ~avail.mouse) => (macro_state = "idle" /\ pw.pc = "none")

\* C15: start_recording() returns true exactly when the controller is Idle
\* and the keyboard or the mouse library is available; a call that returns
\* true leaves an empty log and the state Recording, a call that returns
\* false changes neither the state nor the log.
C15_StartRecordingResult ==
    [][StartRecordingCalled =>
          /\ ret'.val <=> (/\ macro_state = "idle"
                           /\ (avail.keyboard \/ avail.mouse))
          /\ ret'.val => (events' = <<>> /\ macro_state' = "recording")
          /\ ~ret'.val => UNCHANGED <<macro_state, events>>]_vars

\* With only the keyboard library available, a second recording has been
\* started and has cleared the log of the first.
C15_Witness ==
    /\ ret = [op |-> "start_recording", val |-> TRUE]
    /\ avail.keyboard /\ ~avail.mouse
    /\ macro_state = "recording" /\ events = <<>>
    /\ rnote.n = 0 /\ th["ui"].sr = "done"

C17_KillKeyEndsRecording ==
    /\ [](\A i \in 1..Len(events) :
             ~(events[i].key = KillKey /\ events[i].type = "key_down"))
    /\ [][(KillKeySeen /\ th'["kb"].pc = "idle")
             => (macro_state' = "idle" /\ rnote'.n >= 1)]_vars
    /\ [][\A t \in {"kb", "ms"} : AppendEvent(t) => ~th[t].late]_vars

\* ---------------------------------------------------- capture overlay claims
\* A step is a resize step: mouseMoveEvent takes its _do_resize branch.
ResizeStep ==
    /\ resizing /\ ~(dragging /\ drag_start.set)
    /\ \E gx \in PointerXs, gy \in PointerYs : MouseMove(gx, gy)

\* C20: after every resize step the width and the height are at least
\* MIN_SIZE, and the edge opposite to each dragged edge is where it was.
C20_ResizeKeepsOppositeEdge ==
    [][ResizeStep =>
          /\ geom'.w >= 35 /\ geom'.h >= 35
          /\ resize_edge \in West => geom'.x + geom'.w = geom.x + geom.w
          /\ resize_edge \in East => geom'.x = geom.x
          /\ resize_edge \in North => geom'.y + geom'.h = geom.y + geom.h
          /\ resize_edge \in South => geom'.y = geom.y]_vars

\* The geometry _setup_window gives the window.
InitialRegion == [x |-> 100, y |-> 100, w |-> 300, h |-> 50]

\* C21 as stated: every delivered image has the width and the height of the
\* region the overlay had when capture_region was called.
C21_ImageIsWholeRegion ==
    \A i \in DOMAIN captured :
        /\ captured[i].w = captured[i].region.w
        /\ captured[i].h = captured[i].region.h

\* C21, amended: every delivered image is narrower and lower than the region
\* the overlay had when capture_region was called by twice the border
\* width; for the region (100,100,300,50) it is 296 by 46.
C21_ImageIsInsideBorder ==
    \A i \in DOMAIN captured :
        /\ captured[i].w = captured[i].region.w - 4
        /\ captured[i].h = captured[i].region.h - 4
        /\ captured[i].region = InitialRegion
              => (captured[i].w = 296 /\ captured[i].h = 46)

C21_Witness ==
    \E i \in DOMAIN captured :
        captured[i].region = InitialRegion /\ captured[i].w = 296

\* C22: every pixel grab is made while the window is hidden, every _do_capture
\* leaves the window visible, and once a grab has been made exactly one
\* image has been delivered for its capture_region call.
C22_GrabHiddenOneImage ==
    /\ [](\A i \in DOMAIN grabs :
            /\ grabs[i].hidden
            /\ Cardinality({j \in DOMAIN captured :
                               captured[j].id = grabs[i].id}) = 1)
    /\ [][(\E ok \in BOOLEAN : DoCapture(ok)) => visible']_vars

\* C23: the box of every grab is the geometry the window has when the grab
\* is made, without the 2 px border on each side.
C23_BoxOfGeometryAtGrab ==
    \A i \in DOMAIN grabs :
        /\ grabs[i].box.x1 = grabs[i].geom.x + 2
        /\ grabs[i].box.y1 = grabs[i].geom.y + 2
        /\ grabs[i].box.x2 = grabs[i].geom.x + grabs[i].geom.w - 2
        /\ grabs[i].box.y2 = grabs[i].geom.y + grabs[i].geom.h - 2

\* C24: a capture_region call on a paused overlay leaves the window as
\* visible as it was, starts no timer, grabs nothing, delivers no image and
\* leaves the geometry alone.
C24_PausedTriggerIsNoOp ==
    [][(CaptureRegion /\ ~hotkey_enabled)
          => UNCHANGED <<visible, pending, grabs, captured, geom>>]_vars

C24_Witness ==
    skipped > 0 /\ ~hotkey_enabled /\ visible /\ pending = <<>> /\ grabs = <<>>

\* The rectangle r and a display have a pixel in common.
OnSomeScreen(r) ==
    \E d \in Screens :
        /\ r.x < d.x + d.w /\ d.x < r.x + r.w
        /\ r.y < d.y + d.h /\ d.y < r.y + r.h

LeftOfPrimary == [x |-> -200, y |-> 120, w |-> 40, h |-> 35]

\* C25 as stated: for every rectangle r of at least the minimum size,
\* restoring the string saved for r returns True and leaves the geometry r.
C25_RoundTrip ==
    [][\A r \in Regions \cup EdgeRegions :
          (r.w >= 35 /\ r.h >= 35 /\ RestoreGeometryString(SaveGeometryString(r)))
             => (restored'.ret = "true" /\ geom' = r)]_vars

\* C25, amended: for every rectangle r of at least the minimum size that has
\* a pixel in common with a display, negative coordinates included, restoring
\* the string saved for r returns True and leaves the geometry r.
C25_RoundTripOnScreen ==
    [][\A r \in Regions \cup EdgeRegions :
          (/\ r.w >= 35 /\ r.h >= 35
           /\ OnSomeScreen(r)
           /\ RestoreGeometryString(SaveGeometryString(r)))
             => (restored'.ret = "true" /\ geom' = r)]_vars

C25_Witness ==
    /\ restored.str = SaveGeometryString(LeftOfPrimary)
    /\ restored.ret = "true"
    /\ geom = LeftOfPrimary

\* "WxH+X+Y": two numbers and two numbers that may be negative.
IsNumber(str) == str # <<>> /\ \A i \in DOMAIN str : IsDigit(str[i])

IsSignedNumber(str) ==
    IsNumber(str) \/ (str # <<>> /\ Head(str) = "-" /\ IsNumber(Tail(str)))

WellFormed(str) ==
    \E i, j, k \in DOMAIN str :
        /\ i < j /\ j < k
        /\ str[i] = "x" /\ str[j] = "+" /\ str[k] = "+"
        /\ IsNumber(SubSeq(str, 1, i - 1))
        /\ IsNumber(SubSeq(str, i + 1, j - 1))
        /\ IsSignedNumber(SubSeq(str, j + 1, k - 1))
        /\ IsSignedNumber(SubSeq(str, k + 1, Len(str)))

\* The string is malformed, or its rectangle has no pixel in common with a
\* display: it is not what is saved for a rectangle that meets a display.
ShouldReject(str) ==
    \/ ~WellFormed(str)
    \/ ~(\E r \in Regions \cup EdgeRegions :
            OnSomeScreen(r) /\ str = SaveGeometryString(r))

\* C26: restore_geometry_string with a malformed string or a string whose
\* rectangle meets no display returns False, raises nothing and leaves the
\* geometry as it was.
C26_BadStringRejected ==
    [][\A str \in GeometryStrings :
          (ShouldReject(str) /\ RestoreGeometryString(str))
             => (restored'.ret = "false" /\ geom' = geom)]_vars

\* C27: a press inside a horizontal and a vertical margin of 8 px records the
\* corner of the two, a press inside one margin records that edge, and both
\* set the resizing flag; any other press sets the dragging flag and records
\* the offset of the pointer from the top-left corner.  A press that arrives
\* while no gesture is in progress leaves exactly that one flag set.
C27_PressClassifies ==
    [][\A gx \in PointerXs, gy \in PointerYs :
          MousePress(gx, gy) =>
            LET px == gx - geom.x
                py == gy - geom.y
                left == px < 8
                right == px > geom.w - 8
                top == py < 8
                bottom == py > geom.h - 8
                wasIdle == ~dragging /\ ~resizing
            IN  /\ (left \/ right) /\ (top \/ bottom) =>
                     /\ resizing' /\ (wasIdle => ~dragging')
                     /\ resize_edge' =
                           IF top THEN (IF left THEN "TOP_LEFT" ELSE "TOP_RIGHT")
                           ELSE (IF left THEN "BOTTOM_LEFT" ELSE "BOTTOM_RIGHT")
                /\ (left \/ right) /\ ~(top \/ bottom) =>
                     /\ resizing' /\ (wasIdle => ~dragging')
                     /\ resize_edge' = IF left THEN "LEFT" ELSE "RIGHT"
                /\ ~(left \/ right) /\ (top \/ bottom) =>
                     /\ resizing' /\ (wasIdle => ~dragging')
                     /\ resize_edge' = IF top THEN "TOP" ELSE "BOTTOM"
                /\ ~(left \/ right) /\ ~(top \/ bottom) =>
                     /\ dragging' /\ (wasIdle => ~resizing')
                     /\ drag_start' = [set |-> TRUE, x |-> px, y |-> py]]_vars

C27_Witness ==
    /\ resizing /\ ~dragging /\ resize_edge = "BOTTOM_RIGHT"
    /\ geom # InitialRegion

\* C28: a left-button release leaves neither flag set and no edge recorded,
\* and emits geometryChanged exactly when a flag was set; no gesture is
\* reported twice.
C28_ReleaseEndsInteraction ==
    /\ [][MouseRelease =>
             /\ ~dragging' /\ ~resizing' /\ resize_edge' = "NONE"
             /\ changed' = IF dragging \/ resizing THEN changed + 1 ELSE changed]_vars
    /\ [](changed <= 1)

C28_Witness ==
    changed = 1 /\ ~dragging /\ ~resizing /\ geom # InitialRegion

\* C29: the width and the height of the window are at least 35 px in every
\* state that gestures, set_capture_rect and restore_geometry_string reach.
C29_AtLeastMinimum == geom.w >= 35 /\ geom.h >= 35

C29_Witness ==
    /\ geom.w = 35 /\ geom.h = 35
    /\ restored.ret = "true"
    /\ changed = 1

\* -------------------------------------------------- preprocessing claims
\* C30: preprocess_image in mode NONE of an RGB image returns that image:
\* the same mode, the same size and the same pixels.
C30_NoneKeepsRGB ==
    (pre.called /\ pre.mode = "none" /\ pre.image.mode = "RGB")
        => (/\ ~pre.out.raised
            /\ pre.out.image.mode = "RGB"
            /\ pre.out.image.w = pre.image.w
            /\ pre.out.image.h = pre.image.h
            /\ pre.out.image.px = pre.image.px)

C30_Witness ==
    /\ pre.called /\ pre.mode = "none" /\ pre.image.mode = "RGB"
    /\ pre.image.w = 2
    /\ pre.image.px.data[1] # pre.image.px.data[2]
    /\ pre.out.image = pre.image

\* C32: in every state pointer events reach, the window is not dragging
\* and resizing at once, and an edge is recorded exactly when it is resizing.
C32_OneMode ==
    /\ ~(dragging /\ resizing)
    /\ (resize_edge # "NONE") <=> resizing

\* C33: preprocess_image returns an RGB image, and raises nothing, for every
\* mode and every input mode, with cv2 and without it.
C33_AlwaysRGB ==
    pre.called => (~pre.out.raised /\ pre.out.image.mode = "RGB")

\* -------------------------------------------------- engine lifecycle claims
\* C34: in every state another thread can read the flags in, is_loaded and
\* is_loading are not both true, and is_loaded implies that a model is held
\* and that no load error is stored.
C34_FlagsWellFormed ==
    \A e \in Engines :
        /\ ~(is_loaded[e] /\ is_loading[e])
        /\ is_loaded[e] => (mocr[e] /\ load_error[e] = NoError)

\* C35: a perform_ocr call that races with unload_model ends either after
\* calling the model that was held when it passed the is_loaded test or
\* with the not-loaded error; a call is made on a held model only.
C35_InferRunsOrNotLoaded ==
    /\ inf.pc = "done" => (inf.called \/ inf.res = "not_loaded")
    /\ inf.called => inf.res \in {"text", "model_error"}

\* C36: every callback of load_model_async is invoked with success true, or
\* with success false and an error message.
C36_CallbackSettled ==
    \A c \in Calls :
        (loads[c].cb /\ loads[c].pc = "done")
            => (loads[c].ok \/ loads[c].err # NoError)

\* C37: one object is created per engine, the body of __init__ runs once for
\* it, and never on an instance that a constructor call has already returned.
C37_InitializedOnce ==
    /\ \A e \in Engines : instance[e] <= 1 /\ init_runs[e] <= 1
    /\ \A t \in Ctors : ~ctor[t].late

\* C38: with both listeners delivering events during a recording, the
\* timestamps of the log never decrease in log order, and an event is
\* appended to the log only while the state is Recording.
C38_LogOrderedByTime ==
    /\ [](\A i \in 1..(Len(events) - 1) :
             events[i].timestamp <= events[i + 1].timestamp)
    /\ [][\A t \in {"kb", "ms"} :
             AppendEvent(t) => macro_state = "recording"]_vars

\* The controller operations that follow a stop_recording().
LaterOperation ==
    \/ StartRecordingCalled
    \/ ClearEvents
    \/ \E data \in SampleLogs : LoadEvents(data)

\* C39: the list stop_recording() returned and passed to the callback keeps
\* its contents over a later start_recording, clear_events or load_events.
C39_ReturnedLogStable ==
    [][(held.got /\ LaterOperation) => HeldLog' = HeldLog]_vars

\* C40: a stop_recording() that ends a recording leaves the capture hotkey
\* of the main window registered.
C40_HotkeyStaysRegistered ==
    [][\A t \in {"ui", "kb"} :
          StopRecordingFinish(t) => hooked'.hotkey = hooked.hotkey]_vars

\* A recognition has completed while the macro is enabled, the stored log
\* is not empty and the controller is Idle.
MacroDue ==
    /\ pipe.pc = "completed"
    /\ pipe.macro_enabled
    /\ pipe.macro_events # <<>>
    /\ macro_state = "idle"

\* C31: a recognition that completes, with an empty text too, while the
\* macro is enabled with a stored log and the controller is Idle has its
\* result shown and playback of the stored log started; playback is not
\* started when the macro is disabled nor when the recognition failed.
C31_ResultThenPlayback ==
    /\ [][\A k \in BOOLEAN : (OnOcrComplete(k) /\ MacroDue) =>
             /\ pipe'.shown \in {"result", "no_text"}
             /\ macro_state' = "playing"
             /\ pw'.src = pipe.macro_events]_vars
    /\ [][\A k \in BOOLEAN : (OnOcrComplete(k) /\ ~pipe.macro_enabled) =>
             UNCHANGED macro_state]_vars
    /\ [][OnOcrError => UNCHANGED macro_state]_vars
=============================================================================
